---- MODULE Spec2Model ----
(***************************************************************************)
(* Multi-method authentication of vselena_back: accounts, verification     *)
(* codes and account-merge requests, as MultiAuthService and               *)
(* GitHubAuthService (src/src/auth/services/github-auth.service.ts) keep    *)
(* them in their three repositories.                                       *)
(*                                                                         *)
(* Every service method is an operator from the repositories' contents and *)
(* the call's arguments to the new contents and the returned value; the    *)
(* actions apply these operators.  What the code draws at random (the      *)
(* digits of a code) or leaves to the database (which of several matching  *)
(* rows findOne returns) is an argument the actions choose freely.         *)
(*                                                                         *)
(* Columns of User that no operation modelled here reads back              *)
(* (passwordHash, lastName, avatarUrl, githubUsername, oauthMetadata,      *)
(* messengerMetadata, isActive) are left out.                              *)
(***************************************************************************)
EXTENDS Integers, Sequences, FiniteSets, Bags, TLC

VARIABLES
    users,          \* usersRepo: sequence of User rows, id = position
    codes,          \* verificationCodesRepo: bag of VerificationCode rows
    mergeRequests,  \* mergeRequestsRepo: sequence of AccountMergeRequest rows
    now,            \* the clock (new Date(), Date.now()), in seconds
    roleAssignments,\* userRoleAssignmentRepo: set of [userId, role]
    result,         \* what the last call returned
    opCount,        \* number of calls made so far
    calls,          \* the calls in progress, one for each caller
    twoFactorCodes, \* twoFactorCodeRepo: bag of TwoFactorCode rows
    spent,          \* history: the (code, identifier, authMethod, purpose) that
                    \* verifyCode accepted, until a code with them is issued again
    modules,        \* MicroModuleManagerService.modules: name -> module
    rolePromotionModules,  \* MicroModuleManagerService.rolePromotionModules
    organizations,  \* orgRepo: number of Organization rows, id = 1..number
    orgRoles,       \* orgRoleRepo: set of [name, organizationId]
    memberships     \* orgMembershipRepo: sequence of OrganizationMembership rows

vars ==
    <<users, codes, mergeRequests, now, roleAssignments, result, opCount, calls,
      twoFactorCodes, spent, modules, rolePromotionModules, organizations,
      orgRoles, memberships>>

\* the state of the module manager and of the organizations service
serviceVars ==
    <<modules, rolePromotionModules, organizations, orgRoles, memberships>>
\* the state of the authentication services
authVars ==
    <<users, codes, mergeRequests, now, roleAssignments, twoFactorCodes, spent>>

(***************************************************************************)
(* Bounds of the model.                                                    *)
(***************************************************************************)
MaxOps == 3         \* calls in a run of the account model
MaxCodeOps == 5     \* calls in a run of the verification-code model
MaxMergeOps == 5    \* calls in a run of the merge-request model
MaxSendOps == 5     \* calls and clock ticks in a run of the 2FA-code model
MaxCallbacks == 3   \* callbacks started in a run of the callback race
MaxBindOps == 4     \* calls in a run of the bind race
MaxOrgOps == 4      \* calls in a run of the organizations model
MaxOrgs == 2        \* organizations created in a run

(***************************************************************************)
(* Constants of the program.                                               *)
(***************************************************************************)
CodeTtl == 600          \* expiresAt.setMinutes(getMinutes() + 10)
MergeTtl == 86400       \* Date.now() + 24 * 60 * 60 * 1000
RateWindow == 60        \* checkRateLimit: Date.now() - 60 * 1000
RateMax == 3            \* checkRateLimit: recentCodes < 3
TwoFactorTtl == 600     \* sendEmailCode: Date.now() + 10 * 60 * 1000
BackupCodeCount == 10   \* generateBackupCodes: for (let i = 0; i < 10; i++)

NULL == "null"

EMAIL == "EMAIL"
PHONE_WHATSAPP == "PHONE_WHATSAPP"
PHONE_TELEGRAM == "PHONE_TELEGRAM"
GITHUB == "GITHUB"
GOSUSLUGI == "GOSUSLUGI"
VKONTAKTE == "VKONTAKTE"

AuthMethodType ==
    {EMAIL, PHONE_WHATSAPP, PHONE_TELEGRAM, GITHUB, GOSUSLUGI, VKONTAKTE}

Purposes == {"registration", "login", "binding", "unbinding"}

IdentifierFields == {"email", "phone", "githubId", "gosuslugiId", "vkontakteId"}

\* additionalData of register when the caller sends none
NoData == [email |-> NULL, firstName |-> NULL]

(***************************************************************************)
(* Returned values.  error names the message of the source:                *)
(*   UserNotFound    'Пользователь не найден'                              *)
(*   AlreadyBound    'Этот метод аутентификации уже привязан'              *)
(*   InvalidCode     'Неверный код верификации'                            *)
(*   LastMethod      'Нельзя отвязать последний метод аутентификации'      *)
(*   MergeNotFound   'Запрос на слияние не найден'                         *)
(*   MergeProcessed  'Запрос на слияние уже обработан'                     *)
(*   UniqueViolation the exception of a save the store refuses             *)
(*   NoMessenger     'Необходимо указать мессенджер для телефонной         *)
(*                   аутентификации'                                       *)
(*   NotSent         the failure PhoneAuthService.sendCode returned        *)
(***************************************************************************)
Result(op) ==
    [op |-> op, success |-> FALSE, error |-> "none", userId |-> 0,
     created |-> FALSE, requiresMerge |-> FALSE, requiresVerification |-> FALSE,
     mergeRequestId |-> 0, conflicts |-> {}, withCode |-> FALSE]

\* an argument that is left out
Undefined == 0 - 1

\* no time set (resolvedAt of an open request)
NoTime == 0 - 1

\* mfaSettings of an account that never had any (the column is null)
NoMfa ==
    [isNull |-> TRUE, enabled |-> FALSE, methods |-> <<>>, backupCodes |-> <<>>,
     backupCodesUsed |-> <<>>, requiredMethods |-> 0]

(***************************************************************************)
(* usersRepo.create(): a row with the given columns, the others unset.     *)
(***************************************************************************)
NewUser(primary, methods) ==
    [email |-> NULL, phone |-> NULL, githubId |-> NULL, gosuslugiId |-> NULL,
     vkontakteId |-> NULL, firstName |-> NULL,
     emailVerified |-> FALSE, phoneVerified |-> FALSE, githubVerified |-> FALSE,
     gosuslugiVerified |-> FALSE, vkontakteVerified |-> FALSE,
     primaryAuthMethod |-> primary, availableAuthMethods |-> methods,
     mfaSettings |-> NoMfa]

Includes(seq, x) == \E k \in 1..Len(seq) : seq[k] = x

\* a store without unique columns
UniqueViolation_Never(us, id, row) == FALSE

(***************************************************************************)
(* The store refuses a save that would give two accounts the same          *)
(* identifier in one column.                                               *)
(***************************************************************************)
UniqueViolation(us, id, row) ==
    \E other \in (DOMAIN us) \ {id} :
        \E f \in IdentifierFields : row[f] # NULL /\ us[other][f] = row[f]

\* a lookup that takes PHONE_TELEGRAM for an e-mail method
whereColumn_TelegramByEmail(authMethod) ==
    CASE authMethod \in {EMAIL, PHONE_TELEGRAM} -> "email"
      [] authMethod = PHONE_WHATSAPP -> "phone"
      [] authMethod = GITHUB -> "githubId"
      [] authMethod = GOSUSLUGI -> "gosuslugiId"
      [] authMethod = VKONTAKTE -> "vkontakteId"

(***************************************************************************)
(* findUserByIdentifier: the column the method is looked up by, and the    *)
(* account found (0 when none).                                            *)
(***************************************************************************)
whereColumn(authMethod) ==
    CASE authMethod = EMAIL -> "email"
      [] authMethod \in {PHONE_WHATSAPP, PHONE_TELEGRAM} -> "phone"
      [] authMethod = GITHUB -> "githubId"
      [] authMethod = GOSUSLUGI -> "gosuslugiId"
      [] authMethod = VKONTAKTE -> "vkontakteId"

findUserByIdentifier(us, authMethod, identifier) ==
    LET found == {u \in DOMAIN us : us[u][whereColumn(authMethod)] = identifier}
    IN  IF found = {} THEN 0 ELSE CHOOSE u \in found : TRUE

\* a createUser that starts every account with the EMAIL method
createUser_EmailMethods(authMethod, identifier, additionalData) ==
    LET user == NewUser(authMethod, <<EMAIL>>)
    IN  CASE authMethod = EMAIL ->
               [user EXCEPT !.email = identifier]
          [] authMethod \in {PHONE_WHATSAPP, PHONE_TELEGRAM} ->
               [user EXCEPT !.phone = identifier, !.phoneVerified = FALSE]
          [] authMethod = GITHUB ->
               [user EXCEPT !.githubId = identifier, !.githubVerified = TRUE]
          [] authMethod = GOSUSLUGI ->
               [user EXCEPT !.gosuslugiId = identifier, !.gosuslugiVerified = TRUE]
          [] authMethod = VKONTAKTE ->
               [user EXCEPT !.vkontakteId = identifier, !.vkontakteVerified = TRUE]

(***************************************************************************)
(* createUser: the row register persists for a new account.                *)
(***************************************************************************)
createUser(authMethod, identifier, additionalData) ==
    LET user == NewUser(authMethod, <<authMethod>>)
    IN  CASE authMethod = EMAIL ->
               [user EXCEPT !.email = identifier]
          [] authMethod \in {PHONE_WHATSAPP, PHONE_TELEGRAM} ->
               [user EXCEPT !.phone = identifier, !.phoneVerified = FALSE]
          [] authMethod = GITHUB ->
               [user EXCEPT !.githubId = identifier, !.githubVerified = TRUE]
          [] authMethod = GOSUSLUGI ->
               [user EXCEPT !.gosuslugiId = identifier, !.gosuslugiVerified = TRUE]
          [] authMethod = VKONTAKTE ->
               [user EXCEPT !.vkontakteId = identifier, !.vkontakteVerified = TRUE]

(***************************************************************************)
(* MultiAuthService.detectConflicts: a set of [field, primary, secondary]. *)
(***************************************************************************)
detectConflicts(existingUser, authMethod, identifier, additionalData) ==
    CASE authMethod = EMAIL ->
           IF existingUser.email # NULL /\ existingUser.email # identifier
           THEN {[field |-> "email", primary |-> existingUser.email,
                  secondary |-> identifier]}
           ELSE {}
      [] authMethod \in {PHONE_WHATSAPP, PHONE_TELEGRAM} ->
           IF existingUser.phone # NULL /\ existingUser.phone # identifier
           THEN {[field |-> "phone", primary |-> existingUser.phone,
                  secondary |-> identifier]}
           ELSE {}
      [] OTHER -> {}

(***************************************************************************)
(* createMergeRequest: the row persisted for a detected collision.         *)
(***************************************************************************)
createMergeRequest(primaryUserId, authMethod, identifier, conflicts, t) ==
    [primaryUserId |-> primaryUserId, secondaryUserId |-> primaryUserId,
     authMethod |-> authMethod, conflicts |-> conflicts, status |-> "pending",
     resolution |-> NULL, expiresAt |-> t + MergeTtl, resolvedAt |-> NoTime]

(***************************************************************************)
(* generateVerificationCode: the row persisted for a new code; code is the *)
(* outcome of generateRandomCode.                                          *)
(***************************************************************************)
generateVerificationCode(authMethod, identifier, purpose, code, t) ==
    [code |-> code, identifier |-> identifier, authMethod |-> authMethod,
     purpose |-> purpose, createdAt |-> t, expiresAt |-> t + CodeTtl,
     isUsed |-> FALSE]

requiresVerification(authMethod) ==
    authMethod \in {PHONE_WHATSAPP, PHONE_TELEGRAM}

AddCode(cs, row) == cs (+) SetToBag({row})

(***************************************************************************)
(* register.                                                               *)
(***************************************************************************)
\* register from the point where findUserByIdentifier has returned existing
\* (0 for null)
registerAfterLookup(us, cs, mrs, t, existing, authMethod, identifier, additionalData, code) ==
    LET same == [users |-> us, codes |-> cs, mergeRequests |-> mrs]
    IN  IF existing # 0
        THEN LET conflicts ==
                     detectConflicts(us[existing], authMethod, identifier,
                                     additionalData)
             IN  IF conflicts # {}
                 THEN [same EXCEPT !.mergeRequests =
                                       Append(mrs, createMergeRequest(existing,
                                              authMethod, identifier, conflicts, t))]
                      @@ [result |-> [Result("register") EXCEPT
                                         !.requiresMerge = TRUE,
                                         !.mergeRequestId = Len(mrs) + 1,
                                         !.conflicts = conflicts]]
                 ELSE same @@ [result |-> [Result("register") EXCEPT
                                              !.success = TRUE,
                                              !.userId = existing]]
        ELSE LET newUser == createUser(authMethod, identifier, additionalData)
                 id == Len(us) + 1
             IN  IF UniqueViolation(us, id, newUser)
                 THEN same @@ [result |-> [Result("register") EXCEPT
                                              !.error = "UniqueViolation"]]
                 ELSE IF requiresVerification(authMethod)
                 THEN [same EXCEPT !.users = Append(us, newUser),
                                   !.codes = AddCode(cs,
                                       generateVerificationCode(authMethod,
                                           identifier, "registration", code, t))]
                      @@ [result |-> [Result("register") EXCEPT
                                         !.success = TRUE, !.userId = id,
                                         !.created = TRUE,
                                         !.requiresVerification = TRUE]]
                 ELSE [same EXCEPT !.users = Append(us, newUser)]
                      @@ [result |-> [Result("register") EXCEPT
                                         !.success = TRUE, !.userId = id,
                                         !.created = TRUE]]

register(us, cs, mrs, t, authMethod, identifier, additionalData, code) ==
    registerAfterLookup(us, cs, mrs, t,
                        findUserByIdentifier(us, authMethod, identifier),
                        authMethod, identifier, additionalData, code)

(***************************************************************************)
(* PhoneAuthService.sendCode hands the code to the messenger and reports    *)
(* whether it was delivered; it keeps nothing in the repositories.         *)
(***************************************************************************)
sendCode(phoneNumber, code, messenger, purpose, delivered) ==
    [success |-> delivered]

(***************************************************************************)
(* MultiAuthController.register, the register endpoint.  For the phone     *)
(* methods it draws a code, sends it and answers on its own; for the other *)
(* methods it calls the service.  messenger is NULL when the body has      *)
(* none.                                                                   *)
(***************************************************************************)
registerEndpoint(us, cs, mrs, t, authMethod, identifier, messenger, additionalData, code, delivered) ==
    LET same == [users |-> us, codes |-> cs, mergeRequests |-> mrs]
        res == Result("register")
    IN  IF authMethod = PHONE_WHATSAPP \/ authMethod = PHONE_TELEGRAM
        THEN IF messenger = NULL
             THEN same @@ [result |-> [res EXCEPT !.error = "NoMessenger"]]
             ELSE LET sendResult == sendCode(identifier, code, messenger,
                                             "registration", delivered)
                  IN  IF ~sendResult.success
                      THEN same @@ [result |-> [res EXCEPT !.error = "NotSent"]]
                      ELSE same @@ [result |-> [res EXCEPT
                                                   !.success = TRUE,
                                                   !.requiresVerification = TRUE]]
        ELSE register(us, cs, mrs, t, authMethod, identifier, additionalData, code)

\* a lookup that does not compare the purpose
MatchingCodes_AnyPurpose(cs, code, identifier, authMethod, purpose) ==
    {r \in BagToSet(cs) :
        /\ r.code = code
        /\ r.identifier = identifier
        /\ r.authMethod = authMethod
        /\ r.isUsed = FALSE}

(***************************************************************************)
(* verifyCode.  findOne({code, identifier, authMethod, purpose,            *)
(* isUsed: false}) returns one of the matching rows, the database decides  *)
(* which: row is that row, NoRow when there is none.                       *)
(***************************************************************************)
MatchingCodes(cs, code, identifier, authMethod, purpose) ==
    {r \in BagToSet(cs) :
        /\ r.code = code
        /\ r.identifier = identifier
        /\ r.authMethod = authMethod
        /\ r.purpose = purpose
        /\ r.isUsed = FALSE}

\* findOne's null
NoRow ==
    [code |-> NULL, identifier |-> NULL, authMethod |-> NULL, purpose |-> NULL,
     createdAt |-> 0, expiresAt |-> 0, isUsed |-> FALSE]

FindOneCode(cs, code, identifier, authMethod, purpose) ==
    LET rows == MatchingCodes(cs, code, identifier, authMethod, purpose)
    IN  IF rows = {} THEN {NoRow} ELSE rows

MarkUsed(cs, row) ==
    (cs (-) SetToBag({row})) (+) SetToBag({[row EXCEPT !.isUsed = TRUE]})

\* a verifyCode that refuses a code at the very second it expires
verifyCode_ExpiryInclusive(cs, row, t) ==
    IF row = NoRow
    THEN [ok |-> FALSE, codes |-> cs]
    ELSE IF row.expiresAt <= t
    THEN [ok |-> FALSE, codes |-> cs]
    ELSE [ok |-> TRUE, codes |-> MarkUsed(cs, row)]

verifyCode(cs, row, t) ==
    IF row = NoRow
    THEN [ok |-> FALSE, codes |-> cs]
    ELSE IF row.expiresAt < t
    THEN [ok |-> FALSE, codes |-> cs]
    ELSE [ok |-> TRUE, codes |-> MarkUsed(cs, row)]

(***************************************************************************)
(* isAuthMethodBound, getUserIdentifier.                                   *)
(***************************************************************************)
isAuthMethodBound(user, authMethod) ==
    Includes(user.availableAuthMethods, authMethod)

getUserIdentifier(user, authMethod) ==
    CASE authMethod = EMAIL -> user.email
      [] authMethod \in {PHONE_WHATSAPP, PHONE_TELEGRAM} -> user.phone
      [] authMethod = GITHUB -> user.githubId
      [] authMethod = GOSUSLUGI -> user.gosuslugiId
      [] authMethod = VKONTAKTE -> user.vkontakteId
      [] OTHER -> NULL

(***************************************************************************)
(* bindAuthMethodToUser, unbindAuthMethodFromUser: the row they save.      *)
(***************************************************************************)
bindAuthMethodToUser(user, authMethod, identifier) ==
    LET methods == IF Includes(user.availableAuthMethods, authMethod)
                   THEN user.availableAuthMethods
                   ELSE Append(user.availableAuthMethods, authMethod)
        bound == [user EXCEPT !.availableAuthMethods = methods]
    IN  CASE authMethod = EMAIL ->
               [bound EXCEPT !.email = identifier]
          [] authMethod \in {PHONE_WHATSAPP, PHONE_TELEGRAM} ->
               [bound EXCEPT !.phone = identifier, !.phoneVerified = TRUE]
          [] authMethod = GITHUB ->
               [bound EXCEPT !.githubId = identifier, !.githubVerified = TRUE]
          [] authMethod = GOSUSLUGI ->
               [bound EXCEPT !.gosuslugiId = identifier, !.gosuslugiVerified = TRUE]
          [] authMethod = VKONTAKTE ->
               [bound EXCEPT !.vkontakteId = identifier, !.vkontakteVerified = TRUE]

\* an unbindAuthMethodFromUser that makes the first remaining method the
\* primary one when the primary method is unbound
unbindAuthMethodFromUser_Repoints(user, authMethod) ==
    LET filtered == SelectSeq(user.availableAuthMethods,
                              LAMBDA m : m # authMethod)
        unbound == [user EXCEPT
                       !.availableAuthMethods = filtered,
                       !.primaryAuthMethod =
                           IF user.primaryAuthMethod = authMethod /\ filtered # <<>>
                           THEN filtered[1]
                           ELSE user.primaryAuthMethod]
    IN  CASE authMethod = EMAIL ->
               [unbound EXCEPT !.email = NULL]
          [] authMethod \in {PHONE_WHATSAPP, PHONE_TELEGRAM} ->
               [unbound EXCEPT !.phone = NULL, !.phoneVerified = FALSE]
          [] authMethod = GITHUB ->
               [unbound EXCEPT !.githubId = NULL, !.githubVerified = FALSE]
          [] authMethod = GOSUSLUGI ->
               [unbound EXCEPT !.gosuslugiId = NULL, !.gosuslugiVerified = FALSE]
          [] authMethod = VKONTAKTE ->
               [unbound EXCEPT !.vkontakteId = NULL, !.vkontakteVerified = FALSE]

unbindAuthMethodFromUser(user, authMethod) ==
    LET filtered == SelectSeq(user.availableAuthMethods,
                              LAMBDA m : m # authMethod)
        unbound == [user EXCEPT !.availableAuthMethods = filtered]
    IN  CASE authMethod = EMAIL ->
               [unbound EXCEPT !.email = NULL]
          [] authMethod \in {PHONE_WHATSAPP, PHONE_TELEGRAM} ->
               [unbound EXCEPT !.phone = NULL, !.phoneVerified = FALSE]
          [] authMethod = GITHUB ->
               [unbound EXCEPT !.githubId = NULL, !.githubVerified = FALSE]
          [] authMethod = GOSUSLUGI ->
               [unbound EXCEPT !.gosuslugiId = NULL, !.gosuslugiVerified = FALSE]
          [] authMethod = VKONTAKTE ->
               [unbound EXCEPT !.vkontakteId = NULL, !.vkontakteVerified = FALSE]

\* a bindAuthMethod that checks the code before it looks at the methods the
\* account has
bindAuthMethod_CodeFirst(us, cs, mrs, t, userId, authMethod, identifier, verificationCode, row) ==
    LET same == [users |-> us, codes |-> cs, mergeRequests |-> mrs]
        res == [Result("bind") EXCEPT !.withCode = (verificationCode # NULL)]
    IN  IF userId \notin DOMAIN us
        THEN same @@ [result |-> [res EXCEPT !.error = "UserNotFound"]]
        ELSE LET v == IF verificationCode # NULL
                      THEN verifyCode(cs, row, t)
                      ELSE [ok |-> TRUE, codes |-> cs]
                 bound == bindAuthMethodToUser(us[userId], authMethod, identifier)
             IN  IF ~v.ok
                 THEN same @@ [result |-> [res EXCEPT !.error = "InvalidCode"]]
                 ELSE IF isAuthMethodBound(us[userId], authMethod)
                 THEN [same EXCEPT !.codes = v.codes]
                      @@ [result |-> [res EXCEPT !.error = "AlreadyBound"]]
                 ELSE IF UniqueViolation(us, userId, bound)
                 THEN [same EXCEPT !.codes = v.codes]
                      @@ [result |-> [res EXCEPT !.error = "UniqueViolation"]]
                 ELSE [same EXCEPT !.codes = v.codes,
                                   !.users = [us EXCEPT ![userId] = bound]]
                      @@ [result |-> [res EXCEPT !.success = TRUE,
                                                 !.userId = userId]]

(***************************************************************************)
(* bindAuthMethod.  row is what verifyCode's lookup returns when a code is *)
(* supplied (verificationCode # NULL).                                     *)
(***************************************************************************)
bindAuthMethod(us, cs, mrs, t, userId, authMethod, identifier, verificationCode, row) ==
    LET same == [users |-> us, codes |-> cs, mergeRequests |-> mrs]
        res == [Result("bind") EXCEPT !.withCode = (verificationCode # NULL)]
    IN  IF userId \notin DOMAIN us
        THEN same @@ [result |-> [res EXCEPT !.error = "UserNotFound"]]
        ELSE IF isAuthMethodBound(us[userId], authMethod)
        THEN same @@ [result |-> [res EXCEPT !.error = "AlreadyBound"]]
        ELSE LET v == IF verificationCode # NULL
                      THEN verifyCode(cs, row, t)
                      ELSE [ok |-> TRUE, codes |-> cs]
                 bound == bindAuthMethodToUser(us[userId], authMethod, identifier)
             IN  IF ~v.ok
                 THEN same @@ [result |-> [res EXCEPT !.error = "InvalidCode"]]
                 ELSE IF UniqueViolation(us, userId, bound)
                 THEN [same EXCEPT !.codes = v.codes]
                      @@ [result |-> [res EXCEPT !.error = "UniqueViolation"]]
                 ELSE [same EXCEPT !.codes = v.codes,
                                   !.users = [us EXCEPT ![userId] = bound]]
                      @@ [result |-> [res EXCEPT !.success = TRUE,
                                                 !.userId = userId]]

\* an unbindAuthMethod that checks the code before it counts the methods
unbindAuthMethod_CodeFirst(us, cs, mrs, t, userId, authMethod, verificationCode, row) ==
    LET same == [users |-> us, codes |-> cs, mergeRequests |-> mrs]
        res == [Result("unbind") EXCEPT !.withCode = (verificationCode # NULL)]
    IN  IF userId \notin DOMAIN us
        THEN same @@ [result |-> [res EXCEPT !.error = "UserNotFound"]]
        ELSE LET identifier == getUserIdentifier(us[userId], authMethod)
                 v == IF verificationCode # NULL /\ identifier # NULL
                      THEN verifyCode(cs, row, t)
                      ELSE [ok |-> TRUE, codes |-> cs]
                 unbound == unbindAuthMethodFromUser(us[userId], authMethod)
             IN  IF ~v.ok
                 THEN same @@ [result |-> [res EXCEPT !.error = "InvalidCode"]]
                 ELSE IF Len(us[userId].availableAuthMethods) <= 1
                 THEN [same EXCEPT !.codes = v.codes]
                      @@ [result |-> [res EXCEPT !.error = "LastMethod"]]
                 ELSE [same EXCEPT !.codes = v.codes,
                                   !.users = [us EXCEPT ![userId] = unbound]]
                      @@ [result |-> [res EXCEPT !.success = TRUE,
                                                 !.userId = userId]]

\* an unbindAuthMethod that refuses only an account without any method
unbindAuthMethod_OffByOne(us, cs, mrs, t, userId, authMethod, verificationCode, row) ==
    LET same == [users |-> us, codes |-> cs, mergeRequests |-> mrs]
        res == [Result("unbind") EXCEPT !.withCode = (verificationCode # NULL)]
    IN  IF userId \notin DOMAIN us
        THEN same @@ [result |-> [res EXCEPT !.error = "UserNotFound"]]
        ELSE IF Len(us[userId].availableAuthMethods) < 1
        THEN same @@ [result |-> [res EXCEPT !.error = "LastMethod"]]
        ELSE LET identifier == getUserIdentifier(us[userId], authMethod)
                 v == IF verificationCode # NULL /\ identifier # NULL
                      THEN verifyCode(cs, row, t)
                      ELSE [ok |-> TRUE, codes |-> cs]
                 unbound == unbindAuthMethodFromUser(us[userId], authMethod)
             IN  IF ~v.ok
                 THEN same @@ [result |-> [res EXCEPT !.error = "InvalidCode"]]
                 ELSE [same EXCEPT !.codes = v.codes,
                                   !.users = [us EXCEPT ![userId] = unbound]]
                      @@ [result |-> [res EXCEPT !.success = TRUE,
                                                 !.userId = userId]]

(***************************************************************************)
(* unbindAuthMethod.  The code is checked only when the account has an     *)
(* identifier for the method.                                              *)
(***************************************************************************)
unbindAuthMethod(us, cs, mrs, t, userId, authMethod, verificationCode, row) ==
    LET same == [users |-> us, codes |-> cs, mergeRequests |-> mrs]
        res == [Result("unbind") EXCEPT !.withCode = (verificationCode # NULL)]
    IN  IF userId \notin DOMAIN us
        THEN same @@ [result |-> [res EXCEPT !.error = "UserNotFound"]]
        ELSE IF Len(us[userId].availableAuthMethods) <= 1
        THEN same @@ [result |-> [res EXCEPT !.error = "LastMethod"]]
        ELSE LET identifier == getUserIdentifier(us[userId], authMethod)
                 v == IF verificationCode # NULL /\ identifier # NULL
                      THEN verifyCode(cs, row, t)
                      ELSE [ok |-> TRUE, codes |-> cs]
                 unbound == unbindAuthMethodFromUser(us[userId], authMethod)
             IN  IF ~v.ok
                 THEN same @@ [result |-> [res EXCEPT !.error = "InvalidCode"]]
                 ELSE [same EXCEPT !.codes = v.codes,
                                   !.users = [us EXCEPT ![userId] = unbound]]
                      @@ [result |-> [res EXCEPT !.success = TRUE,
                                                 !.userId = userId]]

\* a login that does not look at the code it is given
login_NoCodeCheck(us, cs, mrs, t, authMethod, identifier, verificationCode, row) ==
    LET same == [users |-> us, codes |-> cs, mergeRequests |-> mrs]
        res == [Result("login") EXCEPT !.withCode = (verificationCode # NULL)]
        user == findUserByIdentifier(us, authMethod, identifier)
    IN  IF user = 0
        THEN same @@ [result |-> [res EXCEPT !.error = "UserNotFound"]]
        ELSE same @@ [result |-> [res EXCEPT !.success = TRUE, !.userId = user]]

(***************************************************************************)
(* login.  The password is not compared and MFA is not checked.            *)
(***************************************************************************)
login(us, cs, mrs, t, authMethod, identifier, verificationCode, row) ==
    LET same == [users |-> us, codes |-> cs, mergeRequests |-> mrs]
        res == [Result("login") EXCEPT !.withCode = (verificationCode # NULL)]
        user == findUserByIdentifier(us, authMethod, identifier)
    IN  IF user = 0
        THEN same @@ [result |-> [res EXCEPT !.error = "UserNotFound"]]
        ELSE LET v == IF verificationCode # NULL
                      THEN verifyCode(cs, row, t)
                      ELSE [ok |-> TRUE, codes |-> cs]
             IN  IF ~v.ok
                 THEN same @@ [result |-> [res EXCEPT !.error = "InvalidCode"]]
                 ELSE [same EXCEPT !.codes = v.codes]
                      @@ [result |-> [res EXCEPT !.success = TRUE,
                                                 !.userId = user]]

(***************************************************************************)
(* performAccountMerge returns the primary account as it is; mergeAccounts *)
(* then marks the request resolved.                                        *)
(***************************************************************************)
performAccountMerge(us, mergeRequest, resolution) == us

\* a mergeAccounts that does not look at the request's status
mergeAccounts_NoStatusCheck(us, cs, mrs, t, mergeRequestId, resolution) ==
    LET same == [users |-> us, codes |-> cs, mergeRequests |-> mrs]
        res == Result("merge")
    IN  IF mergeRequestId \notin DOMAIN mrs
        THEN same @@ [result |-> [res EXCEPT !.error = "MergeNotFound"]]
        ELSE [same EXCEPT
                 !.mergeRequests =
                     [mrs EXCEPT ![mergeRequestId] =
                         [@ EXCEPT !.status = "resolved",
                                   !.resolution = resolution,
                                   !.resolvedAt = t]]]
             @@ [result |-> [res EXCEPT !.success = TRUE,
                                        !.mergeRequestId = mergeRequestId,
                                        !.userId = mrs[mergeRequestId].primaryUserId]]

mergeAccounts(us, cs, mrs, t, mergeRequestId, resolution) ==
    LET same == [users |-> us, codes |-> cs, mergeRequests |-> mrs]
        res == Result("merge")
    IN  IF mergeRequestId \notin DOMAIN mrs
        THEN same @@ [result |-> [res EXCEPT !.error = "MergeNotFound"]]
        ELSE IF mrs[mergeRequestId].status # "pending"
        THEN same @@ [result |-> [res EXCEPT !.error = "MergeProcessed",
                                             !.mergeRequestId = mergeRequestId]]
        ELSE [same EXCEPT
                 !.users = performAccountMerge(us, mrs[mergeRequestId], resolution),
                 !.mergeRequests =
                     [mrs EXCEPT ![mergeRequestId] =
                         [@ EXCEPT !.status = "resolved",
                                   !.resolution = resolution,
                                   !.resolvedAt = t]]]
             @@ [result |-> [res EXCEPT !.success = TRUE,
                                        !.mergeRequestId = mergeRequestId,
                                        !.userId = mrs[mergeRequestId].primaryUserId]]

(***************************************************************************)
(* generateBackupCodes: the loop pushes BackupCodeCount strings; draws[k]  *)
(* is the string the k-th Math.random() gives.                             *)
(***************************************************************************)
RECURSIVE PushBackupCodes(_, _, _)
PushBackupCodes(cs, i, draws) ==
    IF i < BackupCodeCount
    THEN PushBackupCodes(Append(cs, draws[i + 1]), i + 1, draws)
    ELSE cs

generateBackupCodes(draws) == PushBackupCodes(<<>>, 0, draws)

\* a setupMfa that keeps the requiredMethods of settings already enabled
setupMfa_KeepsRequired(us, cs, mrs, userId, methods, requiredMethods, backupCodes) ==
    LET same == [users |-> us, codes |-> cs, mergeRequests |-> mrs]
        res == Result("setupMfa")
    IN  IF userId \notin DOMAIN us
        THEN same @@ [result |-> [res EXCEPT !.error = "UserNotFound"]]
        ELSE LET old == us[userId].mfaSettings
                 mfaSettings ==
                     [isNull |-> FALSE, enabled |-> TRUE, methods |-> methods,
                      backupCodes |-> backupCodes,
                      backupCodesUsed |-> <<>>,
                      requiredMethods |-> IF old.enabled THEN old.requiredMethods
                                          ELSE IF requiredMethods = Undefined
                                          THEN 1
                                          ELSE requiredMethods]
             IN  [same EXCEPT !.users = [us EXCEPT ![userId].mfaSettings = mfaSettings]]
                 @@ [result |-> [res EXCEPT !.success = TRUE, !.userId = userId]]

(***************************************************************************)
(* setupMfa and disableMfa replace mfaSettings as a whole.  backupCodes is *)
(* the outcome of generateBackupCodes; requiredMethods is Undefined when   *)
(* the argument is left out (its default is 1).                            *)
(***************************************************************************)
setupMfa(us, cs, mrs, userId, methods, requiredMethods, backupCodes) ==
    LET same == [users |-> us, codes |-> cs, mergeRequests |-> mrs]
        res == Result("setupMfa")
        mfaSettings == [isNull |-> FALSE, enabled |-> TRUE, methods |-> methods,
                        backupCodes |-> backupCodes, backupCodesUsed |-> <<>>,
                        requiredMethods |-> IF requiredMethods = Undefined THEN 1
                                            ELSE requiredMethods]
    IN  IF userId \notin DOMAIN us
        THEN same @@ [result |-> [res EXCEPT !.error = "UserNotFound"]]
        ELSE [same EXCEPT !.users = [us EXCEPT ![userId].mfaSettings = mfaSettings]]
             @@ [result |-> [res EXCEPT !.success = TRUE, !.userId = userId]]

\* a disableMfa that only switches the settings off
disableMfa_OnlyFlag(us, cs, mrs, userId) ==
    LET same == [users |-> us, codes |-> cs, mergeRequests |-> mrs]
        res == Result("disableMfa")
    IN  IF userId \notin DOMAIN us
        THEN same @@ [result |-> [res EXCEPT !.error = "UserNotFound"]]
        ELSE [same EXCEPT !.users =
                 [us EXCEPT ![userId].mfaSettings =
                     [@ EXCEPT !.isNull = FALSE, !.enabled = FALSE]]]
             @@ [result |-> [res EXCEPT !.success = TRUE, !.userId = userId]]

disableMfa(us, cs, mrs, userId) ==
    LET same == [users |-> us, codes |-> cs, mergeRequests |-> mrs]
        res == Result("disableMfa")
        mfaSettings == [isNull |-> FALSE, enabled |-> FALSE, methods |-> <<>>,
                        backupCodes |-> <<>>, backupCodesUsed |-> <<>>,
                        requiredMethods |-> 0]
    IN  IF userId \notin DOMAIN us
        THEN same @@ [result |-> [res EXCEPT !.error = "UserNotFound"]]
        ELSE [same EXCEPT !.users = [us EXCEPT ![userId].mfaSettings = mfaSettings]]
             @@ [result |-> [res EXCEPT !.success = TRUE, !.userId = userId]]

(***************************************************************************)
(* GitHubAuthService.  profile is what the provider returned: ok = FALSE   *)
(* when the token exchange or a fetch failed (message is the message of    *)
(* the error thrown: the catch block logs it and returns a fixed text),    *)
(* else the GitHub id, the primary email (NULL when none is marked         *)
(* primary) and the first name (name.split(' ')[0] || login).              *)
(***************************************************************************)
findUserByGitHubId(us, githubId) ==
    LET found == {u \in DOMAIN us : us[u].githubId = githubId}
    IN  IF found = {} THEN 0 ELSE CHOOSE u \in found : TRUE

findUserByEmail(us, email) ==
    LET found == {u \in DOMAIN us : us[u].email = email}
    IN  IF found = {} THEN 0 ELSE CHOOSE u \in found : TRUE

createUserFromGitHub(profile) ==
    [NewUser(GITHUB, <<GITHUB>>) EXCEPT
        !.email = profile.primaryEmail,
        !.firstName = profile.firstName,
        !.githubId = profile.id,
        !.githubVerified = TRUE,
        !.emailVerified = TRUE]

\* the role assignDefaultRoleToUser looks up, given the number of accounts
\* after the new one was saved
roleToAssign(userCount, defaultRoleName) ==
    IF userCount = 1 THEN "super_admin" ELSE defaultRoleName

assignDefaultRoleToUser_AssignsMissing(ras, userId, userCount, defaultRoleName, roles, thrown) ==
    ras \cup {[userId |-> userId, role |-> roleToAssign(userCount, defaultRoleName)]}

\* thrown: the count, a role lookup or the save throws; the catch block logs
\* the error and the method returns
assignDefaultRoleToUser(ras, userId, userCount, defaultRoleName, roles, thrown) ==
    LET name == roleToAssign(userCount, defaultRoleName)
    IN  IF thrown
        THEN ras
        ELSE IF name \in roles
        THEN ras \cup {[userId |-> userId, role |-> name]}
        ELSE ras

\* a callback that looks the account up by the primary e-mail first
handleCallback_EmailFirst(us, cs, mrs, ras, profile, defaultRoleName, roles, thrown) ==
    LET same == [users |-> us, codes |-> cs, mergeRequests |-> mrs,
                 roleAssignments |-> ras]
        res == Result("githubCallback")
        failed == same @@ [result |-> [res EXCEPT !.error = "GitHubAuthFailed"]]
    IN  IF ~profile.ok
        THEN failed
        ELSE LET existingUser == findUserByGitHubId(us, profile.id)
                 userByEmail == IF profile.primaryEmail # NULL
                                THEN findUserByEmail(us, profile.primaryEmail)
                                ELSE 0
             IN  IF existingUser # 0 /\ userByEmail = 0
                 THEN same @@ [result |-> [res EXCEPT !.success = TRUE,
                                                      !.userId = existingUser]]
                 ELSE IF userByEmail # 0
                 THEN LET u == us[userByEmail]
                          linked ==
                              [u EXCEPT
                                 !.githubId = profile.id,
                                 !.githubVerified = TRUE,
                                 !.availableAuthMethods =
                                     IF Includes(u.availableAuthMethods, GITHUB)
                                     THEN u.availableAuthMethods
                                     ELSE Append(u.availableAuthMethods, GITHUB)]
                      IN  IF UniqueViolation(us, userByEmail, linked)
                          THEN failed
                          ELSE [same EXCEPT !.users = [us EXCEPT ![userByEmail] = linked]]
                               @@ [result |-> [res EXCEPT !.success = TRUE,
                                                          !.userId = userByEmail]]
                 ELSE LET newUser == createUserFromGitHub(profile)
                          id == Len(us) + 1
                      IN  IF UniqueViolation(us, id, newUser)
                          THEN failed
                          ELSE [same EXCEPT
                                   !.users = Append(us, newUser),
                                   !.roleAssignments =
                                       assignDefaultRoleToUser(ras, id, Len(us) + 1,
                                                               defaultRoleName, roles,
                                                               thrown)]
                               @@ [result |-> [res EXCEPT !.success = TRUE,
                                                          !.userId = id,
                                                          !.created = TRUE]]

handleCallback(us, cs, mrs, ras, profile, defaultRoleName, roles, thrown) ==
    LET same == [users |-> us, codes |-> cs, mergeRequests |-> mrs,
                 roleAssignments |-> ras]
        res == Result("githubCallback")
        failed == same @@ [result |-> [res EXCEPT !.error = "GitHubAuthFailed"]]
    IN  IF ~profile.ok
        THEN failed
        ELSE LET existingUser == findUserByGitHubId(us, profile.id)
                 userByEmail == IF profile.primaryEmail # NULL
                                THEN findUserByEmail(us, profile.primaryEmail)
                                ELSE 0
             IN  IF existingUser # 0
                 THEN same @@ [result |-> [res EXCEPT !.success = TRUE,
                                                      !.userId = existingUser]]
                 ELSE IF userByEmail # 0
                 THEN LET u == us[userByEmail]
                          linked ==
                              [u EXCEPT
                                 !.githubId = profile.id,
                                 !.githubVerified = TRUE,
                                 !.availableAuthMethods =
                                     IF Includes(u.availableAuthMethods, GITHUB)
                                     THEN u.availableAuthMethods
                                     ELSE Append(u.availableAuthMethods, GITHUB)]
                      IN  IF UniqueViolation(us, userByEmail, linked)
                          THEN failed
                          ELSE [same EXCEPT !.users = [us EXCEPT ![userByEmail] = linked]]
                               @@ [result |-> [res EXCEPT !.success = TRUE,
                                                          !.userId = userByEmail]]
                 ELSE LET newUser == createUserFromGitHub(profile)
                          id == Len(us) + 1
                      IN  IF UniqueViolation(us, id, newUser)
                          THEN failed
                          ELSE [same EXCEPT
                                   !.users = Append(us, newUser),
                                   !.roleAssignments =
                                       assignDefaultRoleToUser(ras, id, Len(us) + 1,
                                                               defaultRoleName, roles,
                                                               thrown)]
                               @@ [result |-> [res EXCEPT !.success = TRUE,
                                                          !.userId = id,
                                                          !.created = TRUE]]

(***************************************************************************)
(* MultiAuthController.handleGitHubCallback.  bind is the test             *)
(* bind === 'true'; userId 0 is the query without userId.  With bind and   *)
(* userId the account of userId gets GITHUB and the GitHub id of the       *)
(* account the service returned, unless it has GITHUB already.  A save the *)
(* store refuses throws into the catch block, which redirects with the     *)
(* error; what the service saved before stays.                             *)
(***************************************************************************)
handleGitHubCallback(us, cs, mrs, ras, profile, defaultRoleName, roles, thrown, bind, userId) ==
    LET out == handleCallback(us, cs, mrs, ras, profile, defaultRoleName, roles, thrown)
        res == [out.result EXCEPT !.op = "githubCallbackEndpoint"]
        done == [out EXCEPT !.result = res]
    IN  IF ~out.result.success
        THEN done
        ELSE IF bind /\ userId # 0
        THEN IF /\ userId \in DOMAIN out.users
                /\ ~Includes(out.users[userId].availableAuthMethods, GITHUB)
             THEN LET currentUser == out.users[userId]
                      bound ==
                          [currentUser EXCEPT
                             !.availableAuthMethods = Append(@, GITHUB),
                             !.githubId = out.users[out.result.userId].githubId,
                             !.githubVerified = TRUE]
                  IN  IF UniqueViolation(out.users, userId, bound)
                      THEN [out EXCEPT
                              !.result = [res EXCEPT !.success = FALSE,
                                                     !.error = "UniqueViolation"]]
                      ELSE [out EXCEPT !.users = [out.users EXCEPT ![userId] = bound],
                                       !.result = res]
             ELSE done
        ELSE done

(***************************************************************************)
(* handleTelegramLogin.  The account is looked up, and created, by the     *)
(* e-mail address made from the Telegram user name or id.                  *)
(***************************************************************************)
TelegramEmail(telegramUser) ==
    IF telegramUser.username # NULL
    THEN CASE telegramUser.username = "bob" -> "bob@telegram.local"
           [] OTHER -> "other@telegram.local"
    ELSE CASE telegramUser.id = 1 -> "telegram_1@local"
           [] OTHER -> "telegram_0@local"

handleTelegramLogin(us, cs, mrs, telegramUser, botToken) ==
    LET same == [users |-> us, codes |-> cs, mergeRequests |-> mrs]
        res == Result("telegramLogin")
        email == TelegramEmail(telegramUser)
        user == findUserByEmail(us, email)
        newUser == [NewUser(PHONE_TELEGRAM, <<PHONE_TELEGRAM>>) EXCEPT
                       !.email = email,
                       !.firstName = telegramUser.first_name,
                       !.emailVerified = TRUE]
    IN  IF ~botToken
        THEN same @@ [result |-> [res EXCEPT !.error = "NotConfigured"]]
        ELSE IF user # 0
        THEN same @@ [result |-> [res EXCEPT !.success = TRUE, !.userId = user]]
        ELSE IF UniqueViolation(us, Len(us) + 1, newUser)
        THEN same @@ [result |-> [res EXCEPT !.error = "UniqueViolation"]]
        ELSE [same EXCEPT !.users = Append(us, newUser)]
             @@ [result |-> [res EXCEPT !.success = TRUE, !.userId = Len(us) + 1,
                                        !.created = TRUE]]

(***************************************************************************)
(* Actions.                                                                *)
(***************************************************************************)
\* the callers whose requests the service handles at the same time, and a
\* caller that has no call in progress
Callers == {1, 2}
\* no entity loaded
NoUser == NewUser(NULL, <<>>)
NoProfile ==
    [ok |-> FALSE, id |-> NULL, primaryEmail |-> NULL, firstName |-> NULL,
     message |-> NULL]
Idle ==
    [pc |-> "idle", authMethod |-> NULL, identifier |-> NULL, existing |-> 0,
     userId |-> 0, canSend |-> FALSE, code |-> NULL, purpose |-> NULL,
     row |-> NoRow, profile |-> NoProfile, userCount |-> 0, user |-> NoUser,
     organizationId |-> 0, roleName |-> NULL, invitedBy |-> 0,
     result |-> Result("none")]

Apply(out) ==
    /\ users' = out.users
    /\ codes' = out.codes
    /\ mergeRequests' = out.mergeRequests
    /\ result' = out.result
    /\ now' = now

Register(authMethod, identifier, additionalData, code) ==
    /\ Apply(register(users, codes, mergeRequests, now,
                      authMethod, identifier, additionalData, code))
    /\ UNCHANGED roleAssignments

\* what login can do in the current state, one outcome for each row its
\* findOne may return
LoginOutcomes(authMethod, identifier, verificationCode) ==
    {login(users, codes, mergeRequests, now, authMethod, identifier,
           verificationCode, row) :
        row \in FindOneCode(codes, verificationCode, identifier, authMethod,
                            "login")}

Login(authMethod, identifier, verificationCode) ==
    /\ \E out \in LoginOutcomes(authMethod, identifier, verificationCode) :
           Apply(out)
    /\ UNCHANGED roleAssignments

\* what bindAuthMethod can do in the current state, one outcome for each
\* row its findOne may return
BindOutcomes(userId, authMethod, identifier, verificationCode) ==
    {bindAuthMethod(users, codes, mergeRequests, now, userId, authMethod,
                    identifier, verificationCode, row) :
        row \in FindOneCode(codes, verificationCode, identifier, authMethod,
                            "binding")}

BindAuthMethod(userId, authMethod, identifier, verificationCode) ==
    /\ \E out \in BindOutcomes(userId, authMethod, identifier,
                                verificationCode) :
           Apply(out)
    /\ UNCHANGED roleAssignments

\* what unbindAuthMethod can do in the current state, one outcome for each
\* row its findOne may return
UnbindOutcomes(userId, authMethod, verificationCode) ==
    {unbindAuthMethod(users, codes, mergeRequests, now, userId, authMethod,
                      verificationCode, row) :
        row \in FindOneCode(codes, verificationCode,
                            IF userId \in DOMAIN users
                            THEN getUserIdentifier(users[userId], authMethod)
                            ELSE NULL,
                            authMethod, "unbinding")}

UnbindAuthMethod(userId, authMethod, verificationCode) ==
    /\ \E out \in UnbindOutcomes(userId, authMethod, verificationCode) :
           Apply(out)
    /\ UNCHANGED roleAssignments

MergeAccounts(mergeRequestId, resolution) ==
    /\ Apply(mergeAccounts(users, codes, mergeRequests, now, mergeRequestId,
                           resolution))
    /\ UNCHANGED roleAssignments

SetupMfa(userId, methods, requiredMethods, draws) ==
    /\ Apply(setupMfa(users, codes, mergeRequests, userId, methods,
                      requiredMethods, generateBackupCodes(draws)))
    /\ UNCHANGED roleAssignments

DisableMfa(userId) ==
    /\ Apply(disableMfa(users, codes, mergeRequests, userId))
    /\ UNCHANGED roleAssignments

HandleCallback(profile, defaultRoleName, roles, thrown) ==
    LET out == handleCallback(users, codes, mergeRequests, roleAssignments,
                              profile, defaultRoleName, roles, thrown)
    IN  /\ Apply(out)
        /\ roleAssignments' = out.roleAssignments

HandleGitHubCallback(profile, defaultRoleName, roles, thrown, bind, userId) ==
    LET out == handleGitHubCallback(users, codes, mergeRequests, roleAssignments,
                                    profile, defaultRoleName, roles, thrown,
                                    bind, userId)
    IN  /\ Apply(out)
        /\ roleAssignments' = out.roleAssignments

HandleTelegramLogin(telegramUser, botToken) ==
    /\ Apply(handleTelegramLogin(users, codes, mergeRequests, telegramUser,
                                 botToken))
    /\ UNCHANGED roleAssignments

\* issuing a code: generateVerificationCode called on its own
GenerateVerificationCode(authMethod, identifier, purpose, code) ==
    /\ codes' = AddCode(codes, generateVerificationCode(authMethod, identifier,
                                                        purpose, code, now))
    /\ result' = [Result("issue") EXCEPT !.success = TRUE]
    /\ UNCHANGED <<users, mergeRequests, now, roleAssignments>>

\* checking a code: verifyCode called on its own
\* what verifyCode can do in the current state, one outcome for each row
\* its findOne may return
VerifyOutcomes(code, identifier, authMethod, purpose) ==
    {verifyCode(codes, row, now) :
        row \in FindOneCode(codes, code, identifier, authMethod, purpose)}

VerifyCode(code, identifier, authMethod, purpose) ==
    /\ \E v \in VerifyOutcomes(code, identifier, authMethod, purpose) :
               /\ codes' = v.codes
               /\ result' = [Result("verify") EXCEPT !.success = v.ok,
                                                     !.withCode = TRUE]
    /\ UNCHANGED <<users, mergeRequests, now, roleAssignments>>

\* recording a collision: createMergeRequest called on its own
CreateMergeRequest(primaryUserId, authMethod, identifier, conflicts) ==
    /\ primaryUserId \in DOMAIN users
    /\ conflicts # {}
    /\ mergeRequests' = Append(mergeRequests,
                               createMergeRequest(primaryUserId, authMethod,
                                                  identifier, conflicts, now))
    /\ result' = [Result("createMergeRequest") EXCEPT
                     !.success = TRUE, !.mergeRequestId = Len(mergeRequests) + 1]
    /\ UNCHANGED <<users, codes, now, roleAssignments>>

\* time passes between two calls
AdvanceTime(d) ==
    /\ now' = now + d
    /\ result' = Result("tick")
    /\ UNCHANGED <<users, codes, mergeRequests, roleAssignments>>

Init ==
    /\ users = <<>>
    /\ codes = EmptyBag
    /\ mergeRequests = <<>>
    /\ roleAssignments = {}
    /\ now = 0
    /\ result = Result("none")
    /\ opCount = 0
    /\ calls = [p \in Callers |-> Idle]
    /\ twoFactorCodes = EmptyBag
    /\ modules = [n \in {} |-> NULL]
    /\ rolePromotionModules = [n \in {} |-> NULL]
    /\ organizations = 0
    /\ orgRoles = {}
    /\ memberships = <<>>
    /\ spent = {}

(***************************************************************************)
(* What a step did to the codes: the keys of which a row was marked used   *)
(* (verifyCode returned true) and the keys of which a row was added.       *)
(***************************************************************************)
KeyOf(row) == <<row.code, row.identifier, row.authMethod, row.purpose>>

CountWhere(cs, rows) == BagCardinality([r \in rows |-> cs[r]])

UsedCount(cs, key) ==
    CountWhere(cs, {r \in BagToSet(cs) : KeyOf(r) = key /\ r.isUsed})

TotalCount(cs, key) ==
    CountWhere(cs, {r \in BagToSet(cs) : KeyOf(r) = key})

KeysOf(cs) == {KeyOf(r) : r \in BagToSet(cs)}

ConsumedKeys(before, after) ==
    {k \in KeysOf(after) : UsedCount(after, k) > UsedCount(before, k)}

IssuedKeys(before, after) ==
    {k \in KeysOf(after) : TotalCount(after, k) > TotalCount(before, k)}

\* one call is counted
Budget(max) == opCount < max /\ opCount' = opCount + 1

\* and its effect on the codes recorded
Observe ==
    spent' = (spent \ IssuedKeys(codes, codes')) \cup ConsumedKeys(codes, codes')

(***************************************************************************)
(* The inputs the calls are made with.                                     *)
(***************************************************************************)
Ids == {"i1", "i2"}
CodeValues == {"100000", "999999"}
\* what generateRandomCode can return to register: it is called for the
\* methods that require verification only
CodeDraws(authMethod) ==
    IF requiresVerification(authMethod) THEN CodeValues ELSE {"100000"}
DataValues == {NoData, [email |-> "i1", firstName |-> "f1"]}
UserIds == 1..2
\* the messages of the errors exchangeCodeForToken, getUserData and
\* getUserEmails throw
ProviderMessages ==
    {"GitHub token exchange failed: Unauthorized",
     "Failed to fetch GitHub user data: Forbidden",
     "Failed to fetch GitHub user emails: Forbidden"}
Profiles ==
    {[ok |-> FALSE, id |-> NULL, primaryEmail |-> NULL, firstName |-> NULL,
      message |-> msg] : msg \in ProviderMessages}
    \cup {[ok |-> TRUE, id |-> "i1", primaryEmail |-> e, firstName |-> "f2",
           message |-> NULL] : e \in {NULL, "i1"}}
TelegramUsers ==
    {[id |-> 1, username |-> "bob", first_name |-> "f1"],
     [id |-> 1, username |-> NULL, first_name |-> "f1"]}
Roles == {"super_admin", "viewer"}
\* what rolesRepo can hold: both roles, or neither
RoleSets == {Roles, {}}
\* how the role assignment of a callback can go: the roles are there, they
\* are missing, or a repository call throws; a callback that fails at the
\* provider never gets there
RoleOutcomes(profile) ==
    IF profile.ok
    THEN {[roles |-> Roles, thrown |-> FALSE], [roles |-> {}, thrown |-> FALSE],
          [roles |-> Roles, thrown |-> TRUE]}
    ELSE {[roles |-> Roles, thrown |-> FALSE]}
\* what settingsService.getDefaultUserRole() returns
DefaultRoleName == "viewer"
\* the strings the draws of generateBackupCodes give: the first two differ,
\* and there are more of them than the loop takes
BackupCodes == [k \in 1..(BackupCodeCount + 2) |->
                   IF k = 1 THEN "BACKUP01" ELSE "BACKUP00"]
\* the methods and the requiredMethods setupMfa is called with
MfaMethods == {<<EMAIL>>, <<EMAIL, PHONE_TELEGRAM>>}
RequiredMethods == {Undefined, 2}
Conflicts == {{[field |-> "email", primary |-> "i1", secondary |-> "i2"]}}
Resolutions == {"primary", "secondary"}

\* one call of the account model, of the verification-code model and of the
\* merge-request model
Call(A) ==
    Budget(MaxOps) /\ A /\ Observe /\ UNCHANGED <<calls, twoFactorCodes, serviceVars>>
CodeCall(A) ==
    Budget(MaxCodeOps) /\ A /\ Observe /\ UNCHANGED <<calls, twoFactorCodes, serviceVars>>
MergeCall(A) ==
    Budget(MaxMergeOps) /\ A /\ Observe /\ UNCHANGED <<calls, twoFactorCodes, serviceVars>>

Next ==
    \/ \E m \in AuthMethodType, i \in Ids, d \in DataValues : \E c \in CodeDraws(m) :
           Call(Register(m, i, d, c))
    \/ \E m \in AuthMethodType, i \in {"i1"}, vc \in {NULL, "100000"} :
           Call(Login(m, i, vc))
    \/ \E u \in UserIds, m \in AuthMethodType, i \in {"i1"}, vc \in {NULL, "100000"} :
           Call(BindAuthMethod(u, m, i, vc))
    \/ \E u \in UserIds, m \in AuthMethodType, vc \in {NULL, "100000"} :
           Call(UnbindAuthMethod(u, m, vc))
    \/ \E p \in Profiles : Call(HandleCallback(p, DefaultRoleName, Roles, FALSE))
    \/ \E tu \in TelegramUsers : Call(HandleTelegramLogin(tu, TRUE))
    \/ \E u \in UserIds, rm \in RequiredMethods :
           Call(SetupMfa(u, <<EMAIL>>, rm, BackupCodes))
    \/ \E u \in UserIds : Call(DisableMfa(u))
    \/ \E c \in Conflicts : Call(CreateMergeRequest(1, EMAIL, "i2", c))
    \/ \E r \in Resolutions : Call(MergeAccounts(1, r))
    \/ \E p \in {"login", "binding", "unbinding"} :
           Call(GenerateVerificationCode(PHONE_WHATSAPP, "i1", p, "100000"))

Spec == Init /\ [][Next]_vars

\* the states of the account model a further call is made from
CallsLeft == opCount < MaxOps

(***************************************************************************)
(* The verification codes on their own: issuing, checking, time passing.   *)
(***************************************************************************)
NextCodes ==
    \/ \E i \in Ids, p \in {"registration", "login"}, c \in CodeValues :
           CodeCall(GenerateVerificationCode(PHONE_WHATSAPP, i, p, c))
    \/ \E i \in Ids, p \in {"registration", "login"}, c \in CodeValues :
           CodeCall(VerifyCode(c, i, PHONE_WHATSAPP, p))
    \/ \E d \in {1, RateWindow, CodeTtl} : CodeCall(AdvanceTime(d))

SpecCodes == Init /\ [][NextCodes]_vars

(***************************************************************************)
(* The merge requests on their own: an account, requests on it, their      *)
(* resolution, time passing.                                               *)
(***************************************************************************)
NextMerge ==
    \/ \E i \in Ids : MergeCall(Register(EMAIL, i, NoData, "100000"))
    \/ \E u \in UserIds, c \in Conflicts :
           MergeCall(CreateMergeRequest(u, EMAIL, "i2", c))
    \/ \E id \in 1..2, r \in Resolutions : MergeCall(MergeAccounts(id, r))
    \/ \E d \in {1, MergeTtl} : MergeCall(AdvanceTime(d))

SpecMerge == Init /\ [][NextMerge]_vars

(***************************************************************************)
(* Two register calls handled at the same time.  register awaits           *)
(* findUserByIdentifier and then, separately, the save of the new row:     *)
(* the other call's steps may fall between the two.                        *)
(***************************************************************************)
\* the call reaches the result of its findUserByIdentifier
RegisterLookup(p, authMethod, identifier) ==
    /\ calls[p].pc = "idle"
    /\ calls' = [calls EXCEPT ![p] =
                    [@ EXCEPT !.pc = "looked", !.authMethod = authMethod,
                              !.identifier = identifier,
                              !.existing = findUserByIdentifier(users, authMethod,
                                                                identifier)]]
    /\ UNCHANGED <<users, codes, mergeRequests, now, roleAssignments, result,
                   opCount, twoFactorCodes, serviceVars>>

\* the call runs to its end with what its lookup returned
RegisterFinish(p, code) ==
    /\ calls[p].pc = "looked"
    /\ LET out == registerAfterLookup(users, codes, mergeRequests, now,
                                      calls[p].existing, calls[p].authMethod,
                                      calls[p].identifier, NoData, code)
       IN  /\ Apply(out)
           /\ calls' = [calls EXCEPT ![p] =
                           [@ EXCEPT !.pc = "done", !.result = out.result]]
    /\ UNCHANGED <<roleAssignments, opCount, twoFactorCodes, serviceVars>>

NextRace ==
    \/ \E p \in Callers, m \in AuthMethodType, i \in Ids :
           RegisterLookup(p, m, i) /\ Observe
    \/ \E p \in Callers : \E c \in CodeDraws(calls[p].authMethod) :
           RegisterFinish(p, c) /\ Observe

SpecRace == Init /\ [][NextRace]_vars

(***************************************************************************)
(* EmailTwoFactorService.sendEmailCode, handled for several callers at the *)
(* same time.  It awaits checkRateLimit and then, separately, the save of  *)
(* the new row: the other calls' steps may fall between the two.           *)
(* TelegramTwoFactorService.sendTelegramCode has the same two steps.       *)
(***************************************************************************)
\* the rows checkRateLimit counts
recentCodes(tfs, userId, type, t) ==
    CountWhere(tfs, {r \in BagToSet(tfs) :
                        /\ r.userId = userId
                        /\ r.type = type
                        /\ r.createdAt > t - RateWindow})

checkRateLimit(tfs, userId, type, t) ==
    recentCodes(tfs, userId, type, t) < RateMax

\* the row sendEmailCode saves
twoFactorCode(userId, code, t) ==
    [userId |-> userId, code |-> code, type |-> "email", createdAt |-> t,
     expiresAt |-> t + TwoFactorTtl, status |-> "pending"]

\* the call reaches the result of its checkRateLimit
SendCheckRateLimit(p, userId) ==
    /\ calls[p].pc = "idle"
    /\ calls' = [calls EXCEPT ![p] =
                    [@ EXCEPT !.pc = "checked", !.userId = userId,
                              !.canSend = checkRateLimit(twoFactorCodes, userId,
                                                         "email", now)]]
    /\ UNCHANGED <<twoFactorCodes, result, now, serviceVars>>

\* the call runs to its end: it saves the row when the check allowed it
SendSave(p, code) ==
    /\ calls[p].pc = "checked"
    /\ twoFactorCodes' =
           IF calls[p].canSend
           THEN twoFactorCodes (+) SetToBag({twoFactorCode(calls[p].userId, code,
                                                          now)})
           ELSE twoFactorCodes
    /\ result' = [Result("sendEmailCode") EXCEPT
                     !.success = calls[p].canSend,
                     !.error = IF calls[p].canSend THEN "none" ELSE "RateLimited",
                     !.userId = calls[p].userId]
    /\ calls' = [calls EXCEPT ![p] = Idle]
    /\ UNCHANGED <<opCount, now, serviceVars>>

NextSend ==
    \/ \E p \in Callers, u \in UserIds :
           /\ Budget(MaxSendOps)
           /\ SendCheckRateLimit(p, u)
           /\ UNCHANGED <<users, codes, mergeRequests, roleAssignments, spent>>
    \/ \E p \in Callers :
           /\ SendSave(p, "100000")
           /\ UNCHANGED <<users, codes, mergeRequests, roleAssignments, spent>>
    \/ \E d \in {1, RateWindow} :
           /\ Budget(MaxSendOps)
           /\ AdvanceTime(d)
           /\ UNCHANGED <<calls, twoFactorCodes, spent, serviceVars>>

SpecSend == Init /\ [][NextSend]_vars

(***************************************************************************)
(* verifyCode handled for two callers at the same time.  It awaits findOne *)
(* and then, separately, the save of the row it found with isUsed set: the *)
(* other call's steps may fall between the two.  The codes issued here     *)
(* differ in (code, identifier, authMethod, purpose), so that a lookup     *)
(* matches one record at most.                                             *)
(***************************************************************************)
\* the save of a row that was read before: the record it was read from is
\* written with isUsed set, whether or not it has been written meanwhile
SaveUsed(cs, row) ==
    IF BagIn(row, cs) THEN MarkUsed(cs, row) ELSE cs

IssueSingle(identifier, purpose, code) ==
    /\ <<code, identifier, PHONE_WHATSAPP, purpose>> \notin KeysOf(codes)
    /\ GenerateVerificationCode(PHONE_WHATSAPP, identifier, purpose, code)

\* the call reaches the result of its findOne
VerifyFind(p, code, identifier, authMethod, purpose) ==
    /\ calls[p].pc \in {"idle", "done"}
    /\ \E row \in FindOneCode(codes, code, identifier, authMethod, purpose) :
           calls' = [calls EXCEPT ![p] =
                        [Idle EXCEPT !.pc = "found", !.code = code,
                                     !.identifier = identifier,
                                     !.authMethod = authMethod,
                                     !.purpose = purpose, !.row = row]]
    /\ UNCHANGED <<users, codes, mergeRequests, now, roleAssignments, result,
                   twoFactorCodes, serviceVars>>

\* the call runs to its end with the row its findOne returned
VerifyFinish(p) ==
    /\ calls[p].pc = "found"
    /\ LET v == verifyCode(codes, calls[p].row, now)
           res == [Result("verify") EXCEPT !.success = v.ok, !.withCode = TRUE]
       IN  /\ codes' = IF v.ok THEN SaveUsed(codes, calls[p].row) ELSE codes
           /\ result' = res
           /\ calls' = [calls EXCEPT ![p] = [@ EXCEPT !.pc = "done",
                                                      !.result = res]]
    /\ UNCHANGED <<users, mergeRequests, now, roleAssignments, opCount,
                   twoFactorCodes, serviceVars>>

NextVerifyRace ==
    \/ \E i \in Ids, pu \in {"login"}, c \in CodeValues :
           CodeCall(IssueSingle(i, pu, c))
    \/ \E p \in Callers, i \in Ids, c \in CodeValues :
           /\ Budget(MaxCodeOps)
           /\ VerifyFind(p, c, i, PHONE_WHATSAPP, "login")
           /\ Observe
    \/ \E p \in Callers : VerifyFinish(p) /\ Observe
    \/ \E d \in {CodeTtl + 1} : CodeCall(AdvanceTime(d))

SpecVerifyRace == Init /\ [][NextVerifyRace]_vars

(***************************************************************************)
(* Accounts registered and looked up by e-mail addresses that differ in    *)
(* letter case only.  register, login and findUserByIdentifier pass the    *)
(* identifier to the where clause and to the new row as they received it.  *)
(***************************************************************************)
\* e-mail addresses, grouped: the addresses of one group differ in letter
\* case only
CaseVariants == {{"i1", "I1"}, {"i2", "I2"}}
EmailIds == UNION CaseVariants

NextCase ==
    \/ \E i \in EmailIds, d \in DataValues :
           Call(Register(EMAIL, i, d, "100000"))
    \/ \E i \in EmailIds : Call(Login(EMAIL, i, NULL))

SpecCase == Init /\ [][NextCase]_vars

(***************************************************************************)
(* Registration through the register endpoint, and the check of the code   *)
(* that was delivered.                                                     *)
(***************************************************************************)
Messengers == {NULL, "whatsapp"}

RegisterEndpoint(authMethod, identifier, messenger, additionalData, code, delivered) ==
    /\ Apply(registerEndpoint(users, codes, mergeRequests, now, authMethod,
                              identifier, messenger, additionalData, code,
                              delivered))
    /\ UNCHANGED roleAssignments

NextEndpoint ==
    \/ \E m \in AuthMethodType, i \in Ids, ms \in Messengers, c \in CodeValues, ok \in BOOLEAN :
           Call(RegisterEndpoint(m, i, ms, NoData, c, ok))
    \/ \E m \in {PHONE_WHATSAPP, PHONE_TELEGRAM}, i \in Ids, c \in CodeValues :
           Call(Register(m, i, NoData, c))
    \/ \E m \in {PHONE_WHATSAPP, PHONE_TELEGRAM}, i \in Ids, c \in CodeValues :
           Call(VerifyCode(c, i, m, "registration"))

SpecEndpoint == Init /\ [][NextEndpoint]_vars

(***************************************************************************)
(* The calls that write the identifier columns and the role assignments:   *)
(* register, bindAuthMethod, unbindAuthMethod, the GitHub callback of the  *)
(* service with every outcome of its role assignment, the callback         *)
(* endpoint with bind=true, and the Telegram login.                        *)
(***************************************************************************)
NextIdentity ==
    \/ \E m \in AuthMethodType, i \in Ids : Call(Register(m, i, NoData, "100000"))
    \/ \E u \in UserIds, m \in AuthMethodType, i \in Ids :
           Call(BindAuthMethod(u, m, i, NULL))
    \/ \E u \in UserIds, m \in AuthMethodType :
           Call(UnbindAuthMethod(u, m, "100000"))
    \/ \E m \in {EMAIL, GITHUB} :
           Call(GenerateVerificationCode(m, "i1", "unbinding", "100000"))
    \/ \E p \in Profiles : \E o \in RoleOutcomes(p) :
           Call(HandleCallback(p, DefaultRoleName, o.roles, o.thrown))
    \/ \E p \in {x \in Profiles : x.ok}, u \in UserIds :
           Call(HandleGitHubCallback(p, DefaultRoleName, Roles, FALSE, TRUE, u))
    \/ \E tu \in TelegramUsers : Call(HandleTelegramLogin(tu, TRUE))

SpecIdentity == Init /\ [][NextIdentity]_vars

(***************************************************************************)
(* GitHub callbacks handled at the same time.  handleCallback is cut at    *)
(* its awaits: the two lookups, the save of the new account, the count of  *)
(* assignDefaultRoleToUser, and its role lookup and save.  A callback that *)
(* finds an account has no further step that matters here and ends at once.*)
(***************************************************************************)
CreatingProfiles ==
    {[ok |-> TRUE, id |-> i, primaryEmail |-> e, firstName |-> "f2",
      message |-> NULL] : i \in Ids, e \in {NULL, "i1"}}

\* findUserByGitHubId and findUserByEmail
CallbackFind(p, profile) ==
    /\ calls[p].pc \in {"idle", "done"}
    /\ LET existingUser == findUserByGitHubId(users, profile.id)
           userByEmail == IF profile.primaryEmail # NULL
                          THEN findUserByEmail(users, profile.primaryEmail)
                          ELSE 0
       IN  IF existingUser # 0 \/ userByEmail # 0
           THEN LET out == handleCallback(users, codes, mergeRequests,
                                          roleAssignments, profile,
                                          DefaultRoleName, Roles, FALSE)
                IN  /\ users' = out.users
                    /\ result' = out.result
                    /\ calls' = [calls EXCEPT ![p] =
                                    [Idle EXCEPT !.pc = "done", !.profile = profile,
                                                 !.result = out.result]]
           ELSE /\ calls' = [calls EXCEPT ![p] =
                                [Idle EXCEPT !.pc = "found", !.profile = profile]]
                /\ UNCHANGED <<users, result>>
    /\ UNCHANGED <<codes, mergeRequests, now, roleAssignments, twoFactorCodes, serviceVars>>

\* usersRepo.save of createUserFromGitHub; a refused save ends the call in
\* the catch block of handleCallback
CallbackSave(p) ==
    /\ calls[p].pc = "found"
    /\ LET newUser == createUserFromGitHub(calls[p].profile)
           id == Len(users) + 1
           failed == [Result("githubCallback") EXCEPT !.error = "GitHubAuthFailed"]
       IN  IF UniqueViolation(users, id, newUser)
           THEN /\ result' = failed
                /\ calls' = [calls EXCEPT ![p] = [@ EXCEPT !.pc = "done",
                                                           !.result = failed]]
                /\ UNCHANGED users
           ELSE /\ users' = Append(users, newUser)
                /\ calls' = [calls EXCEPT ![p] = [@ EXCEPT !.pc = "saved",
                                                           !.userId = id]]
                /\ UNCHANGED result
    /\ UNCHANGED <<codes, mergeRequests, now, roleAssignments, opCount,
                   twoFactorCodes, serviceVars>>

\* usersRepo.count()
CallbackCount(p) ==
    /\ calls[p].pc = "saved"
    /\ calls' = [calls EXCEPT ![p] = [@ EXCEPT !.pc = "counted",
                                               !.userCount = Len(users)]]
    /\ UNCHANGED <<users, codes, mergeRequests, now, roleAssignments, result,
                   opCount, twoFactorCodes, serviceVars>>

\* the role lookup, the save of the assignment and the return
CallbackAssign(p, roles) ==
    /\ calls[p].pc = "counted"
    /\ LET res == [Result("githubCallback") EXCEPT !.success = TRUE,
                                                   !.userId = calls[p].userId,
                                                   !.created = TRUE]
       IN  /\ roleAssignments' =
                  assignDefaultRoleToUser(roleAssignments, calls[p].userId,
                                          calls[p].userCount, DefaultRoleName,
                                          roles, FALSE)
           /\ result' = res
           /\ calls' = [calls EXCEPT ![p] = [@ EXCEPT !.pc = "done",
                                                      !.result = res]]
    /\ UNCHANGED <<users, codes, mergeRequests, now, opCount, twoFactorCodes, serviceVars>>

NextCallbackRace ==
    \/ \E p \in Callers, pr \in CreatingProfiles :
           Budget(MaxCallbacks) /\ CallbackFind(p, pr) /\ Observe
    \/ \E p \in Callers : CallbackSave(p) /\ Observe
    \/ \E p \in Callers : CallbackCount(p) /\ Observe
    \/ \E p \in Callers : CallbackAssign(p, Roles) /\ Observe

SpecCallbackRace == Init /\ [][NextCallbackRace]_vars

(***************************************************************************)
(* bindAuthMethod calls handled at the same time, among the other calls    *)
(* that write availableAuthMethods.  bindAuthMethod is cut at the await of *)
(* its findOne: the rest works on the entity that findOne returned, and    *)
(* usersRepo.save writes that entity over the row.  The calls carry no     *)
(* verification code (it is optional).                                     *)
(***************************************************************************)
BindLoad(p, userId, authMethod, identifier) ==
    /\ calls[p].pc \in {"idle", "done"}
    /\ IF userId \notin DOMAIN users
       THEN LET res == [Result("bind") EXCEPT !.error = "UserNotFound"]
            IN  /\ result' = res
                /\ calls' = [calls EXCEPT ![p] =
                                [Idle EXCEPT !.pc = "done", !.result = res]]
       ELSE /\ calls' = [calls EXCEPT ![p] =
                            [Idle EXCEPT !.pc = "loaded", !.userId = userId,
                                         !.authMethod = authMethod,
                                         !.identifier = identifier,
                                         !.user = users[userId]]]
            /\ UNCHANGED result
    /\ UNCHANGED <<users, codes, mergeRequests, now, roleAssignments,
                   twoFactorCodes, serviceVars>>

\* a save that appends the method to the stored row instead of writing the
\* loaded entity
BindSave_AppendsToRow(p) ==
    /\ calls[p].pc = "loaded"
    /\ LET c == calls[p]
           res == Result("bind")
           out == IF isAuthMethodBound(c.user, c.authMethod)
                  THEN [users |-> users,
                        result |-> [res EXCEPT !.error = "AlreadyBound"]]
                  ELSE [users |-> [users EXCEPT
                                      ![c.userId].availableAuthMethods =
                                          Append(@, c.authMethod)],
                        result |-> [res EXCEPT !.success = TRUE,
                                               !.userId = c.userId]]
       IN  /\ users' = out.users
           /\ result' = out.result
           /\ calls' = [calls EXCEPT ![p] = [@ EXCEPT !.pc = "done",
                                                      !.result = out.result]]
    /\ UNCHANGED <<codes, mergeRequests, now, roleAssignments, opCount,
                   twoFactorCodes, serviceVars>>

BindSave(p) ==
    /\ calls[p].pc = "loaded"
    /\ LET c == calls[p]
           res == Result("bind")
           bound == bindAuthMethodToUser(c.user, c.authMethod, c.identifier)
           out == IF isAuthMethodBound(c.user, c.authMethod)
                  THEN [users |-> users,
                        result |-> [res EXCEPT !.error = "AlreadyBound"]]
                  ELSE IF UniqueViolation(users, c.userId, bound)
                  THEN [users |-> users,
                        result |-> [res EXCEPT !.error = "UniqueViolation"]]
                  ELSE [users |-> [users EXCEPT ![c.userId] = bound],
                        result |-> [res EXCEPT !.success = TRUE,
                                               !.userId = c.userId]]
       IN  /\ users' = out.users
           /\ result' = out.result
           /\ calls' = [calls EXCEPT ![p] = [@ EXCEPT !.pc = "done",
                                                      !.result = out.result]]
    /\ UNCHANGED <<codes, mergeRequests, now, roleAssignments, opCount,
                   twoFactorCodes, serviceVars>>

BindCall(A) ==
    Budget(MaxBindOps) /\ A /\ Observe /\ UNCHANGED <<calls, twoFactorCodes, serviceVars>>

NextBindRace ==
    \/ \E m \in {EMAIL, GITHUB}, i \in Ids :
           BindCall(Register(m, i, NoData, "100000"))
    \/ \E p \in Callers, u \in UserIds, m \in {EMAIL, GITHUB}, i \in Ids :
           Budget(MaxBindOps) /\ BindLoad(p, u, m, i) /\ Observe
    \/ \E p \in Callers : BindSave(p) /\ Observe
    \/ \E u \in UserIds, m \in {EMAIL, GITHUB} :
           BindCall(UnbindAuthMethod(u, m, "100000"))
    \/ \E m \in {EMAIL, GITHUB} :
           BindCall(GenerateVerificationCode(m, "i1", "unbinding", "100000"))
    \/ \E pr \in {x \in Profiles : x.ok} :
           BindCall(HandleCallback(pr, DefaultRoleName, Roles, FALSE))
    \/ \E pr \in {x \in Profiles : x.ok}, u \in UserIds :
           BindCall(HandleGitHubCallback(pr, DefaultRoleName, Roles, FALSE, TRUE, u))

SpecBindRace == Init /\ [][NextBindRace]_vars

(***************************************************************************)
(* MicroModuleManagerService.  A module is an object with a name, a type   *)
(* (NULL: the object has no type property) and an identity; the two maps   *)
(* are functions from the registered names to module objects.              *)
(***************************************************************************)
ModuleNames == {"referral", "email-2fa"}
ModuleTypes == {"role-promotion", "two-factor", NULL}
ModuleObjects ==
    {[name |-> n, type |-> t, instance |-> k] :
        n \in ModuleNames, t \in ModuleTypes, k \in 1..2}

isRolePromotionModule(module) == module.type = "role-promotion"

\* Map.set and Map.delete
MapSet(map, key, value) ==
    [k \in DOMAIN map \cup {key} |-> IF k = key THEN value ELSE map[k]]
MapDelete(map, key) ==
    [k \in DOMAIN map \ {key} |-> map[k]]

registerModule(ms, rpms, module) ==
    [modules |-> MapSet(ms, module.name, module),
     rolePromotionModules |->
         IF isRolePromotionModule(module)
         THEN MapSet(rpms, module.name, module)
         ELSE rpms]

unregisterModule(ms, rpms, moduleName) ==
    IF moduleName \in DOMAIN ms
    THEN [modules |-> MapDelete(ms, moduleName),
          rolePromotionModules |-> MapDelete(rpms, moduleName),
          returned |-> TRUE]
    ELSE [modules |-> ms, rolePromotionModules |-> rpms, returned |-> FALSE]

RegisterModule(module) ==
    LET out == registerModule(modules, rolePromotionModules, module)
    IN  /\ modules' = out.modules
        /\ rolePromotionModules' = out.rolePromotionModules
        /\ result' = [Result("registerModule") EXCEPT !.success = TRUE]
        /\ UNCHANGED <<authVars, opCount, calls, organizations, orgRoles,
                       memberships>>

UnregisterModule(moduleName) ==
    LET out == unregisterModule(modules, rolePromotionModules, moduleName)
    IN  /\ modules' = out.modules
        /\ rolePromotionModules' = out.rolePromotionModules
        /\ result' = [Result("unregisterModule") EXCEPT !.success = out.returned]
        /\ UNCHANGED <<authVars, opCount, calls, organizations, orgRoles,
                       memberships>>

NextModules ==
    \/ \E module \in ModuleObjects : RegisterModule(module)
    \/ \E n \in ModuleNames : UnregisterModule(n)

SpecModules == Init /\ [][NextModules]_vars

(***************************************************************************)
(* OrganizationsService.  The exceptions are named in result.error:        *)
(*   CannotCreate   'Недостаточно прав для создания организации'           *)
(*   CannotInvite   'Недостаточно прав для приглашения в организацию'      *)
(*   RoleNotFound   'Роль ... не найдена в организации'                    *)
(*   AlreadyMember  'Пользователь уже является участником организации'     *)
(* canCreate and canInvite are the answers of RoleHierarchyService.        *)
(***************************************************************************)
SystemRoleNames == {"super_admin", "admin", "manager", "editor", "viewer"}

createSystemRoles(roles, organizationId) ==
    roles \cup {[name |-> n, organizationId |-> organizationId] :
                   n \in SystemRoleNames}

\* orgMembershipRepo.findOne({ where: { userId, organizationId } })
existingMembership(ms, userId, organizationId) ==
    \E k \in 1..Len(ms) :
        ms[k].userId = userId /\ ms[k].organizationId = organizationId

\* the exception addMemberToOrganization throws before it saves, or "none"
addMemberRefusal(ms, roles, organizationId, userId, roleName, invitedBy, canInvite) ==
    IF userId # invitedBy /\ ~canInvite
    THEN "CannotInvite"
    ELSE IF [name |-> roleName, organizationId |-> organizationId] \notin roles
    THEN "RoleNotFound"
    ELSE IF existingMembership(ms, userId, organizationId)
    THEN "AlreadyMember"
    ELSE "none"

Membership(organizationId, userId, roleName, invitedBy) ==
    [userId |-> userId, organizationId |-> organizationId, role |-> roleName,
     invitedBy |-> invitedBy]

addMemberToOrganization(ms, roles, organizationId, userId, roleName, invitedBy, canInvite) ==
    LET refusal == addMemberRefusal(ms, roles, organizationId, userId, roleName,
                                    invitedBy, canInvite)
        res == [Result("addMember") EXCEPT !.userId = userId]
    IN  IF refusal # "none"
        THEN [memberships |-> ms, result |-> [res EXCEPT !.error = refusal]]
        ELSE [memberships |->
                  Append(ms, Membership(organizationId, userId, roleName, invitedBy)),
              result |-> [res EXCEPT !.success = TRUE]]

createOrganization(orgs, roles, ms, creatorId, canCreate) ==
    LET res == [Result("createOrganization") EXCEPT !.userId = creatorId]
        id == orgs + 1
        withRoles == createSystemRoles(roles, id)
        added == addMemberToOrganization(ms, withRoles, id, creatorId,
                                         "super_admin", creatorId, FALSE)
    IN  IF ~canCreate
        THEN [organizations |-> orgs, orgRoles |-> roles, memberships |-> ms,
              result |-> [res EXCEPT !.error = "CannotCreate"]]
        ELSE [organizations |-> id, orgRoles |-> withRoles,
              memberships |-> added.memberships,
              result |-> [res EXCEPT !.success = added.result.success,
                                     !.error = added.result.error]]

CreateOrganization(creatorId, canCreate) ==
    /\ organizations < MaxOrgs
    /\ LET out == createOrganization(organizations, orgRoles, memberships,
                                     creatorId, canCreate)
       IN  /\ organizations' = out.organizations
           /\ orgRoles' = out.orgRoles
           /\ memberships' = out.memberships
           /\ result' = out.result
    /\ UNCHANGED <<authVars, calls, modules, rolePromotionModules>>

\* addMemberToOrganization up to the result of orgMembershipRepo.findOne
AddMemberFind(p, organizationId, userId, roleName, invitedBy, canInvite) ==
    /\ calls[p].pc \in {"idle", "done"}
    /\ LET refusal == addMemberRefusal(memberships, orgRoles, organizationId,
                                       userId, roleName, invitedBy, canInvite)
           res == [Result("addMember") EXCEPT !.userId = userId,
                                              !.error = refusal]
           c == [Idle EXCEPT !.userId = userId, !.organizationId = organizationId,
                             !.roleName = roleName, !.invitedBy = invitedBy]
       IN  IF refusal # "none"
           THEN /\ result' = res
                /\ calls' = [calls EXCEPT ![p] = [c EXCEPT !.pc = "done",
                                                           !.result = res]]
           ELSE /\ calls' = [calls EXCEPT ![p] = [c EXCEPT !.pc = "found"]]
                /\ UNCHANGED result
    /\ UNCHANGED <<authVars, modules, rolePromotionModules, organizations,
                   orgRoles, memberships>>

\* orgMembershipRepo.save(membership)
AddMemberSave(p) ==
    /\ calls[p].pc = "found"
    /\ LET c == calls[p]
           res == [Result("addMember") EXCEPT !.userId = c.userId,
                                              !.success = TRUE]
       IN  /\ memberships' =
                  Append(memberships, Membership(c.organizationId, c.userId,
                                                 c.roleName, c.invitedBy))
           /\ result' = res
           /\ calls' = [calls EXCEPT ![p] = [@ EXCEPT !.pc = "done",
                                                      !.result = res]]
    /\ UNCHANGED <<authVars, opCount, modules, rolePromotionModules,
                   organizations, orgRoles>>

NextOrg ==
    \/ \E u \in UserIds, canCreate \in BOOLEAN :
           Budget(MaxOrgOps) /\ CreateOrganization(u, canCreate)
    \/ \E p \in Callers, o \in 1..MaxOrgs, u \in UserIds, by \in UserIds :
       \E r \in {"viewer", "owner"}, canInvite \in BOOLEAN :
           Budget(MaxOrgOps) /\ AddMemberFind(p, o, u, r, by, canInvite)
    \/ \E p \in Callers : AddMemberSave(p) /\ UNCHANGED opCount

SpecOrg == Init /\ [][NextOrg]_vars

(***************************************************************************)
(* Properties.                                                             *)
(***************************************************************************)

\* codes created for (identifier, authMethod) inside the window that ends at t
RecentCodes(cs, identifier, authMethod, t) ==
    CountWhere(cs, {r \in BagToSet(cs) :
                       /\ r.identifier = identifier
                       /\ r.authMethod = authMethod
                       /\ r.createdAt > t - RateWindow})

\* C1: once verifyCode has accepted (code, identifier, authMethod, purpose),
\* no later verifyCode call accepts the same four values, as long as no code
\* with them is issued again.
C1_AcceptedOnce ==
    [][\A k \in spent : k \notin ConsumedKeys(codes, codes')]_vars

\* C2: issuing a code for (identifier, authMethod) fails with RateLimited and
\* persists nothing exactly when RateMax or more codes were created for them
\* inside the preceding RateWindow seconds.
C2_IssuanceRateLimited ==
    [][result'.op = "issue" =>
       \A m \in AuthMethodType, i \in Ids, p \in Purposes, c \in CodeValues :
          GenerateVerificationCode(m, i, p, c) =>
              ((RecentCodes(codes, i, m, now) >= RateMax)
                  <=> (result'.error = "RateLimited" /\ codes' = codes))]_vars

\* C3: unbindAuthMethod on an account with at most one method returns the
\* last-method failure, whatever the method and whether or not a code is
\* supplied, changes no account and consumes no code.
C3_LastMethodKept ==
    \A u \in DOMAIN users :
        (CallsLeft /\ Len(users[u].availableAuthMethods) <= 1) =>
            \A m \in AuthMethodType, vc \in {NULL} \cup CodeValues :
                \A out \in UnbindOutcomes(u, m, vc) :
                    /\ out.result.success = FALSE
                    /\ out.result.error = "LastMethod"
                    /\ out.users = users
                    /\ out.codes = codes

\* C3 witness: the unbind of an account's only method was refused although the
\* call carried a code that is valid for unbinding that method.
C3_Witness ==
    /\ result.op = "unbind"
    /\ result.error = "LastMethod"
    /\ result.withCode
    /\ \E u \in DOMAIN users, r \in BagToSet(codes) :
          /\ Len(users[u].availableAuthMethods) = 1
          /\ r.purpose = "unbinding"
          /\ r.isUsed = FALSE
          /\ r.expiresAt >= now
          /\ r.authMethod = users[u].availableAuthMethods[1]
          /\ r.identifier = getUserIdentifier(users[u], r.authMethod)

\* C4: every persisted account has a non-empty availableAuthMethods.
C4_MethodsNonEmpty ==
    \A u \in DOMAIN users : Len(users[u].availableAuthMethods) >= 1

\* C4 witness: an unbind went through and left the account with one method.
C4_Witness ==
    /\ result.op = "unbind"
    /\ result.success
    /\ Len(users[result.userId].availableAuthMethods) = 1

\* C5: for every account and every method in its availableAuthMethods, the
\* identifier column of that method is non-null.
C5_MethodsHaveIdentifier ==
    \A u \in DOMAIN users :
        \A k \in 1..Len(users[u].availableAuthMethods) :
            getUserIdentifier(users[u], users[u].availableAuthMethods[k]) # NULL

\* C6: a register call that finds no account creates one whose
\* availableAuthMethods is exactly the registering method, which is also its
\* primaryAuthMethod.
C6_RegisterCreatesSingleMethod ==
    \A m \in AuthMethodType, i \in Ids, d \in DataValues : \A c \in CodeDraws(m) :
        (CallsLeft /\ findUserByIdentifier(users, m, i) = 0) =>
            LET out == register(users, codes, mergeRequests, now, m, i, d, c)
                id == Len(users) + 1
            IN  /\ out.result.success
                /\ out.result.userId = id
                /\ Len(out.users) = id
                /\ out.users[id].availableAuthMethods = <<m>>
                /\ out.users[id].primaryAuthMethod = m

\* C6 witness: register created an account with a method other than EMAIL.
C6_Witness ==
    /\ result.op = "register"
    /\ result.created
    /\ users[result.userId].primaryAuthMethod = GITHUB

\* C7: register called twice in a row with the same method, identifier and
\* additional data returns success with the same account id both times, leaves
\* exactly one account with that identifier and creates no merge request.
C7_RegisterIdempotent ==
    \A m \in AuthMethodType, i \in Ids, d \in DataValues : \A c \in CodeDraws(m) :
      CallsLeft =>
        LET first == register(users, codes, mergeRequests, now, m, i, d, c)
            again == register(first.users, first.codes, first.mergeRequests,
                              now, m, i, d, c)
        IN  /\ first.result.success
            /\ again.result.success
            /\ again.result.userId = first.result.userId
            /\ again.users = first.users
            /\ first.mergeRequests = mergeRequests
            /\ again.mergeRequests = mergeRequests
            /\ Cardinality({u \in DOMAIN again.users :
                               again.users[u][whereColumn(m)] = i}) = 1

\* C7 witness: the second of two calls returned the account the first one,
\* a register, had created.
C7_Witness ==
    /\ opCount = 2
    /\ result.op = "register"
    /\ result.success
    /\ ~result.created
    /\ result.userId = 1
    /\ Len(users) = 1
    /\ users[1].firstName = NULL
    /\ Len(mergeRequests) = 0

\* C8: with an account created by register(EMAIL, e), register(GITHUB, id)
\* whose profile carries the e-mail e and another first name returns
\* requiresMerge with a conflict for firstName and none for email, and creates
\* no account.
C8_GithubRegisterRequiresMerge ==
    [][result'.op = "register" =>
       \A i \in Ids, d \in DataValues, c \in CodeDraws(GITHUB) :
          (/\ d.email # NULL
           /\ \E u \in DOMAIN users :
                 /\ users[u].primaryAuthMethod = EMAIL
                 /\ users[u].email = d.email
                 /\ users[u].firstName # d.firstName
           /\ findUserByIdentifier(users, GITHUB, i) = 0
           /\ Register(GITHUB, i, d, c))
          => (/\ result'.requiresMerge
              /\ \E x \in result'.conflicts : x.field = "firstName"
              /\ ~\E x \in result'.conflicts : x.field = "email"
              /\ users' = users)]_vars

\* C9: mergeAccounts on a pending request whose expiresAt is earlier than the
\* current time fails with the expired error, for every resolution, and
\* changes neither the request nor any account.
C9_ExpiredRequestRefused ==
    [][result'.op = "merge" =>
       \A id \in 1..2, r \in Resolutions :
          (/\ id \in DOMAIN mergeRequests
           /\ mergeRequests[id].status = "pending"
           /\ mergeRequests[id].expiresAt < now
           /\ MergeAccounts(id, r))
          => (/\ result'.success = FALSE
              /\ result'.error = "MergeExpired"
              /\ mergeRequests' = mergeRequests
              /\ users' = users)]_vars

\* C10: mergeAccounts on a request that is not pending fails with the
\* already-processed error and changes neither the request (status,
\* resolution, resolvedAt) nor any account, whatever the resolution.
C10_ResolvedRequestKept ==
    \A id \in DOMAIN mergeRequests :
        mergeRequests[id].status # "pending" =>
            \A r \in Resolutions :
                LET out == mergeAccounts(users, codes, mergeRequests, now, id, r)
                IN  /\ out.result.success = FALSE
                    /\ out.result.error = "MergeProcessed"
                    /\ out.mergeRequests = mergeRequests
                    /\ out.users = users

\* C10 witness: a second mergeAccounts call on a resolved request was refused.
C10_Witness ==
    /\ result.op = "merge"
    /\ result.error = "MergeProcessed"
    /\ result.mergeRequestId \in DOMAIN mergeRequests
    /\ mergeRequests[result.mergeRequestId].status = "resolved"
    /\ mergeRequests[result.mergeRequestId].resolution \in Resolutions

\* C11: the account created in a store that held none has the super_admin
\* role, and every account created after it has the configured default role.
C11_RoleOnCreation ==
    \A u \in DOMAIN users :
        [userId |-> u,
         role |-> IF u = 1 THEN "super_admin" ELSE DefaultRoleName]
            \in roleAssignments

\* the unused rows carrying (code, identifier, authMethod), by purpose
UnusedRows(code, identifier, authMethod, purpose) ==
    {r \in BagToSet(codes) :
        /\ r.code = code
        /\ r.identifier = identifier
        /\ r.authMethod = authMethod
        /\ r.purpose = purpose
        /\ ~r.isUsed}

\* C12: bindAuthMethod on an existing account, for a method not bound yet,
\* with a code that was issued for that identifier and method for registration
\* and for which no binding code with the same digits exists, fails with the
\* invalid-code error, leaves the accounts as they are and every code unused
\* as before.
C12_RegistrationCodeRefusedForBinding ==
    CallsLeft =>
        \A u \in DOMAIN users, m \in AuthMethodType, i \in Ids, vc \in CodeValues :
            (/\ ~isAuthMethodBound(users[u], m)
             /\ UnusedRows(vc, i, m, "registration") # {}
             /\ UnusedRows(vc, i, m, "binding") = {})
            => \A out \in BindOutcomes(u, m, i, vc) :
                   /\ out.result.success = FALSE
                   /\ out.result.error = "InvalidCode"
                   /\ out.users = users
                   /\ out.codes = codes

\* C12 witness: a bind that carried a code was refused as invalid while the
\* registration code with those digits lies unused and unexpired, an account
\* has not bound that code's method, and no binding code was ever issued.
C12_Witness ==
    /\ result.op = "bind"
    /\ result.withCode
    /\ result.error = "InvalidCode"
    /\ \E r \in BagToSet(codes) :
          /\ r.purpose = "registration"
          /\ r.code = "100000"
          /\ r.identifier = "i1"
          /\ ~r.isUsed
          /\ r.expiresAt >= now
          /\ result.userId = 0
          /\ \E u \in DOMAIN users : ~isAuthMethodBound(users[u], r.authMethod)
    /\ \A r \in BagToSet(codes) : r.purpose # "binding"

\* the unused rows carrying (code, identifier, authMethod) that have not
\* expired, by purpose
LiveRows(code, identifier, authMethod, purpose) ==
    {r \in UnusedRows(code, identifier, authMethod, purpose) : r.expiresAt >= now}

\* C13: for distinct purposes p and q, when unused, unexpired rows for
\* (code, identifier, authMethod) exist for purpose p and for no other
\* purpose, verifyCode(code, identifier, authMethod, q) returns false and
\* marks no row used.
C13_PurposeScoped ==
    \A r \in BagToSet(codes) :
        (/\ r \in LiveRows(r.code, r.identifier, r.authMethod, r.purpose)
         /\ \A q \in Purposes \ {r.purpose} :
               LiveRows(r.code, r.identifier, r.authMethod, q) = {})
        => \A q \in Purposes \ {r.purpose} :
               \A v \in VerifyOutcomes(r.code, r.identifier, r.authMethod, q) :
                   v.ok = FALSE /\ v.codes = codes

\* C13 witness: a verifyCode call returned false although, for each identifier
\* and each code value, an unused and unexpired registration row exists (and
\* none for another purpose): the call asked for another purpose.
C13_Witness ==
    /\ result.op = "verify"
    /\ result.success = FALSE
    /\ \A r \in BagToSet(codes) : r.purpose = "registration"
    /\ \A i \in Ids, c \in CodeValues :
          LiveRows(c, i, PHONE_WHATSAPP, "registration") # {}

\* C14: login fails with the user-not-found error when no account matches
\* (method, identifier); with a code supplied it succeeds only by consuming an
\* unused, unexpired login code for that identifier and method, and otherwise
\* fails with the invalid-code error and consumes nothing.  No login changes
\* an account.
C14_LoginChecksCode ==
    CallsLeft =>
        \A m \in AuthMethodType, i \in Ids, vc \in {NULL} \cup CodeValues :
            \A out \in LoginOutcomes(m, i, vc) :
                /\ out.users = users
                /\ findUserByIdentifier(users, m, i) = 0 =>
                       /\ out.result.success = FALSE
                       /\ out.result.error = "UserNotFound"
                       /\ out.codes = codes
                /\ (findUserByIdentifier(users, m, i) # 0 /\ vc # NULL) =>
                       IF out.result.success
                       THEN \E r \in LiveRows(vc, i, m, "login") :
                                out.codes = MarkUsed(codes, r)
                       ELSE /\ out.result.error = "InvalidCode"
                            /\ out.codes = codes

\* C14 witness: a login that carried a code succeeded and the login code of
\* the account's identifier is now used.
C14_Witness ==
    /\ result.op = "login"
    /\ result.withCode
    /\ result.success
    /\ \E r \in BagToSet(codes) :
          /\ r.purpose = "login"
          /\ r.isUsed
          /\ r.identifier = getUserIdentifier(users[result.userId], r.authMethod)

\* C15: login never returns success for an account whose mfaSettings.enabled
\* is true (the model has no second-factor step that could have been passed).
C15_MfaGatesLogin ==
    (result.op = "login" /\ result.success)
        => ~users[result.userId].mfaSettings.enabled

\* C16: when two register calls for the same method and identifier, handled
\* at the same time, have both returned, one account holds the identifier and
\* both calls returned it with success.
C16_RaceYieldsOneAccount ==
    (/\ \A p \in Callers : calls[p].pc = "done"
     /\ calls[1].authMethod = calls[2].authMethod
     /\ calls[1].identifier = calls[2].identifier)
    => (/\ \A p \in Callers : calls[p].result.success
        /\ calls[1].result.userId = calls[2].result.userId
        /\ Cardinality({u \in DOMAIN users :
                           users[u][whereColumn(calls[1].authMethod)]
                               = calls[1].identifier}) = 1)

\* C17: whatever the interleaving of the sendEmailCode calls, no more than
\* RateMax rows of one user and type are created inside one window of
\* RateWindow seconds.
C17_WindowHoldsAtMostThree ==
    \A r \in BagToSet(twoFactorCodes) :
        CountWhere(twoFactorCodes,
                   {x \in BagToSet(twoFactorCodes) :
                       /\ x.userId = r.userId
                       /\ x.type = r.type
                       /\ x.createdAt > r.createdAt - RateWindow
                       /\ x.createdAt <= r.createdAt}) <= RateMax

\* C18: setupMfa on an existing account replaces its mfaSettings, whatever
\* they were, by enabled = true, the given methods, the given requiredMethods
\* (1 when left out), BackupCodeCount backup codes and no used backup code,
\* and changes nothing else; on an unknown account it fails with not-found and
\* changes nothing.
C18_SetupMfaReplaces ==
    CallsLeft =>
        \A u \in UserIds, ms \in MfaMethods, rm \in RequiredMethods :
            LET out == setupMfa(users, codes, mergeRequests, u, ms, rm,
                                generateBackupCodes(BackupCodes))
                new == out.users[u].mfaSettings
            IN  /\ out.codes = codes
                /\ out.mergeRequests = mergeRequests
                /\ IF u \in DOMAIN users
                   THEN /\ out.result.success
                        /\ new.enabled
                        /\ ~new.isNull
                        /\ new.methods = ms
                        /\ new.requiredMethods = (IF rm = Undefined THEN 1 ELSE rm)
                        /\ Len(new.backupCodes) = BackupCodeCount
                        /\ \A k \in 1..BackupCodeCount :
                              new.backupCodes[k] = BackupCodes[k]
                        /\ new.backupCodesUsed = <<>>
                        /\ out.users = [users EXCEPT ![u].mfaSettings = new]
                   ELSE /\ out.result.success = FALSE
                        /\ out.result.error = "UserNotFound"
                        /\ out.users = users

\* C18 witness: setupMfa was called with requiredMethods left out on an
\* account that had settings with requiredMethods 2, and the account now has
\* requiredMethods 1 and BackupCodeCount backup codes.
C18_Witness ==
    /\ result.op = "setupMfa"
    /\ result.success
    /\ opCount = 3
    /\ Len(users) = 1
    /\ users[1].mfaSettings.requiredMethods = 1
    /\ Len(users[1].mfaSettings.backupCodes) = BackupCodeCount

\* C19: disableMfa on an existing account sets its mfaSettings, whatever they
\* were, to enabled = false, no methods, no backup codes, none used and
\* requiredMethods 0, changes nothing else, and a second call changes nothing
\* any more.
C19_DisableMfaResets ==
    CallsLeft =>
        \A u \in DOMAIN users :
            LET out == disableMfa(users, codes, mergeRequests, u)
                again == disableMfa(out.users, out.codes, out.mergeRequests, u)
                new == out.users[u].mfaSettings
            IN  /\ out.result.success
                /\ new.enabled = FALSE
                /\ new.methods = <<>>
                /\ new.backupCodes = <<>>
                /\ new.backupCodesUsed = <<>>
                /\ new.requiredMethods = 0
                /\ out.users = [users EXCEPT ![u].mfaSettings = new]
                /\ out.codes = codes
                /\ out.mergeRequests = mergeRequests
                /\ again.result.success
                /\ again.users = out.users
                /\ again.codes = out.codes
                /\ again.mergeRequests = out.mergeRequests

\* C19 witness: disableMfa succeeded as the third call on the only account,
\* which has bound a second method and whose settings are now the zero value.
C19_Witness ==
    /\ result.op = "disableMfa"
    /\ result.success
    /\ opCount = 3
    /\ users[result.userId].mfaSettings.enabled = FALSE
    /\ users[result.userId].mfaSettings.isNull = FALSE
    /\ users[result.userId].mfaSettings.requiredMethods = 0
    /\ Len(users[result.userId].availableAuthMethods) = 2

\* C20: every merge request is created pending; a request changes its status
\* only from pending, either to resolved, by a resolution call made while the
\* request has not expired, or to expired, once the current time is past its
\* expiresAt; a resolved, rejected or expired request keeps its status.
C20_MergeRequestStateMachine ==
    [][/\ \A id \in DOMAIN mergeRequests :
             /\ id \in DOMAIN mergeRequests'
             /\ mergeRequests'[id].status # mergeRequests[id].status =>
                    /\ mergeRequests[id].status = "pending"
                    /\ \/ /\ mergeRequests'[id].status = "resolved"
                          /\ result'.op = "merge"
                          /\ now <= mergeRequests[id].expiresAt
                       \/ /\ mergeRequests'[id].status = "expired"
                          /\ now > mergeRequests[id].expiresAt
       /\ \A id \in (DOMAIN mergeRequests') \ (DOMAIN mergeRequests) :
             mergeRequests'[id].status = "pending"]_vars

\* C21: lookup by e-mail ignores letter case: an account stored with e-mail a
\* is the one findUserByIdentifier returns for every address that differs
\* from a in letter case only, register creates no second account for such an
\* address, and a login with such an address returns that account.
C21_EmailLookupIgnoresCase ==
    \A v \in CaseVariants :
        /\ Cardinality({u \in DOMAIN users : users[u].email \in v}) <= 1
        /\ \A a \in v, b \in v :
              \A u \in DOMAIN users :
                  users[u].email = a =>
                      /\ findUserByIdentifier(users, EMAIL, b) = u
                      /\ \A out \in LoginOutcomes(EMAIL, b, NULL) :
                             out.result.success /\ out.result.userId = u

\* C22: when a registration with a phone method for an unknown phone answers
\* requiresVerification, be it made through the service or through the
\* register endpoint, an account with that phone exists afterwards and an
\* unused registration code for the phone and the method is persisted that
\* has the delivered digits and has not expired.
C22_PhoneRegistrationLeavesCode ==
    CallsLeft =>
        \A m \in {PHONE_WHATSAPP, PHONE_TELEGRAM}, i \in Ids, c \in CodeValues :
            findUserByIdentifier(users, m, i) = 0 =>
                \A out \in {register(users, codes, mergeRequests, now, m, i,
                                     NoData, c)}
                           \cup {registerEndpoint(users, codes, mergeRequests,
                                                  now, m, i, ms, NoData, c, ok) :
                                     ms \in Messengers, ok \in BOOLEAN} :
                    out.result.requiresVerification =>
                        /\ \E u \in DOMAIN out.users : out.users[u].phone = i
                        /\ \E r \in BagToSet(out.codes) :
                              /\ r.code = c
                              /\ r.identifier = i
                              /\ r.authMethod = m
                              /\ r.purpose = "registration"
                              /\ ~r.isUsed
                              /\ r.expiresAt >= now

\* C23: when the token exchange, the profile fetch or the e-mail fetch of the
\* GitHub callback fails, the call fails, creates and changes no account and
\* assigns no role, and the error it returns carries the underlying message:
\* two failures with different messages are not reported by the same error.
C23_ProviderFailureReported ==
    CallsLeft =>
        \A p \in Profiles :
            ~p.ok =>
                LET out == handleCallback(users, codes, mergeRequests,
                                          roleAssignments, p, DefaultRoleName,
                                          Roles, FALSE)
                IN  /\ out.result.success = FALSE
                    /\ out.users = users
                    /\ out.roleAssignments = roleAssignments
                    /\ \A q \in Profiles :
                          (~q.ok /\ q.message # p.message) =>
                              handleCallback(users, codes, mergeRequests,
                                             roleAssignments, q, DefaultRoleName,
                                             Roles, FALSE).result.error
                                  # out.result.error

\* C24: for every unused row verifyCode's lookup can return, verifyCode
\* returns false and changes no row when the row's expiresAt is earlier than
\* the current time, and returns true, marking that row used, when the
\* current time is at or before expiresAt; every row's expiresAt is its
\* creation time plus CodeTtl; and no step takes a used row back to unused.
C24_ExpiryAndUse ==
    [][/\ \A r \in BagToSet(codes) :
             /\ r.expiresAt = r.createdAt + CodeTtl
             /\ ~r.isUsed =>
                    LET v == verifyCode(codes, r, now)
                    IN  IF r.expiresAt < now
                        THEN v.ok = FALSE /\ v.codes = codes
                        ELSE v.ok = TRUE /\ v.codes = MarkUsed(codes, r)
       /\ \A k \in KeysOf(codes) : UsedCount(codes', k) >= UsedCount(codes, k)]_vars

\* C24 witness: a verifyCode call returned true for a row at the very second
\* the row expires, and the row is now used.
C24_Witness ==
    /\ result.op = "verify"
    /\ result.success
    /\ \E r \in BagToSet(codes) : r.isUsed /\ r.expiresAt = now /\ r.createdAt = 0

\* C25: when two verifyCode calls with the same (code, identifier,
\* authMethod, purpose), handled at the same time against the single record
\* with these values, have both returned, at most one of them returned true.
C25_OneVerifierWins ==
    (/\ \A p \in Callers : calls[p].pc = "done"
     /\ \A p \in Callers :
           /\ calls[p].code = calls[1].code
           /\ calls[p].identifier = calls[1].identifier
           /\ calls[p].authMethod = calls[1].authMethod
           /\ calls[p].purpose = calls[1].purpose
     /\ TotalCount(codes, <<calls[1].code, calls[1].identifier,
                            calls[1].authMethod, calls[1].purpose>>) = 1)
    => ~(\A p \in Callers : calls[p].result.success)

\* C26: for every account and every incoming identity (method, identifier,
\* additional data), detectConflicts returns exactly the conflicts of the
\* fields email, phone and firstName that the incoming identity sets and
\* whose value on the account is non-empty and differs from the incoming
\* one, each with primary the account's value and secondary the incoming one.
C26_ConflictsExact ==
    \A u \in DOMAIN users :
        \A m \in AuthMethodType, i \in Ids, d \in DataValues :
            LET incoming ==
                    [email |-> IF m = EMAIL THEN i ELSE d.email,
                     phone |-> IF m \in {PHONE_WHATSAPP, PHONE_TELEGRAM}
                               THEN i ELSE NULL,
                     firstName |-> d.firstName]
            IN  detectConflicts(users[u], m, i, d)
                    = {[field |-> f, primary |-> users[u][f],
                        secondary |-> incoming[f]] :
                           f \in {g \in {"email", "phone", "firstName"} :
                                     /\ incoming[g] # NULL
                                     /\ users[u][g] # NULL
                                     /\ users[u][g] # incoming[g]}}

\* C27: when register finds an existing account and the incoming identity
\* conflicts with it (a field among email, phone and firstName that it sets
\* differs from the account's non-empty value), register persists one merge
\* request, pending, with primaryUserId the account found, these conflicts,
\* no resolution and expiresAt the current time plus MergeTtl, returns
\* requiresMerge with the request's id and the conflicts, and changes no
\* account; when nothing conflicts it creates no merge request.
C27_RegisterRecordsConflicts ==
    CallsLeft =>
        \A m \in AuthMethodType, i \in Ids, d \in DataValues : \A c \in CodeDraws(m) :
            LET existing == findUserByIdentifier(users, m, i)
                incoming ==
                    [email |-> IF m = EMAIL THEN i ELSE d.email,
                     phone |-> IF m \in {PHONE_WHATSAPP, PHONE_TELEGRAM}
                               THEN i ELSE NULL,
                     firstName |-> d.firstName]
                conflicts ==
                    {[field |-> f, primary |-> users[existing][f],
                      secondary |-> incoming[f]] :
                         f \in {g \in {"email", "phone", "firstName"} :
                                   /\ incoming[g] # NULL
                                   /\ users[existing][g] # NULL
                                   /\ users[existing][g] # incoming[g]}}
                out == register(users, codes, mergeRequests, now, m, i, d, c)
                id == Len(mergeRequests) + 1
            IN  existing # 0 =>
                    IF conflicts # {}
                    THEN /\ Len(out.mergeRequests) = id
                         /\ \A k \in 1..Len(mergeRequests) :
                               out.mergeRequests[k] = mergeRequests[k]
                         /\ out.mergeRequests[id].status = "pending"
                         /\ out.mergeRequests[id].primaryUserId = existing
                         /\ out.mergeRequests[id].conflicts = conflicts
                         /\ out.mergeRequests[id].resolution = NULL
                         /\ out.mergeRequests[id].expiresAt = now + MergeTtl
                         /\ out.result.requiresMerge
                         /\ out.result.mergeRequestId = id
                         /\ out.result.conflicts = conflicts
                         /\ out.users = users
                    ELSE /\ out.mergeRequests = mergeRequests
                         /\ out.users = users

\* C28: mergeAccounts on a pending request whose conflicts name the primary
\* account's present values succeeds, leaves the primary account with, for
\* each conflicting field, the side the resolution chose, sets the request's
\* status to resolved, stores the resolution, sets resolvedAt to the current
\* time and returns the primary account.
C28_MergeAppliesResolution ==
    \A id \in DOMAIN mergeRequests :
        LET mr == mergeRequests[id]
        IN  (/\ mr.status = "pending"
             /\ mr.primaryUserId \in DOMAIN users
             /\ \A x \in mr.conflicts : users[mr.primaryUserId][x.field] = x.primary)
            => \A r \in Resolutions :
                   LET out == mergeAccounts(users, codes, mergeRequests, now, id, r)
                   IN  /\ out.result.success
                       /\ out.result.userId = mr.primaryUserId
                       /\ \A x \in mr.conflicts :
                             out.users[mr.primaryUserId][x.field] = x[r]
                       /\ out.mergeRequests[id].status = "resolved"
                       /\ out.mergeRequests[id].resolution = r
                       /\ out.mergeRequests[id].resolvedAt = now

\* C29: bindAuthMethod for a method the account has already bound fails with
\* the already-bound error, and for an unknown account id with the not-found
\* error, whatever identifier and code are supplied; either way no account
\* changes and every code stays as it was.
C29_BoundMethodRefusedFirst ==
    CallsLeft =>
        \A u \in UserIds, m \in AuthMethodType, i \in Ids, vc \in {NULL} \cup CodeValues :
            \A out \in BindOutcomes(u, m, i, vc) :
                /\ u \notin DOMAIN users =>
                       /\ out.result.success = FALSE
                       /\ out.result.error = "UserNotFound"
                       /\ out.users = users
                       /\ out.codes = codes
                /\ (u \in DOMAIN users /\ Includes(users[u].availableAuthMethods, m)) =>
                       /\ out.result.success = FALSE
                       /\ out.result.error = "AlreadyBound"
                       /\ out.users = users
                       /\ out.codes = codes

\* C29 witness: a bind that carried a code was refused as already bound while
\* a binding code with those digits lies unused and unexpired for a method
\* that an account has bound.
C29_Witness ==
    /\ result.op = "bind"
    /\ result.withCode
    /\ result.error = "AlreadyBound"
    /\ \E u \in DOMAIN users, r \in BagToSet(codes) :
          /\ r.purpose = "binding"
          /\ r.code = "100000"
          /\ r.identifier = "i1"
          /\ ~r.isUsed
          /\ r.expiresAt >= now
          /\ isAuthMethodBound(users[u], r.authMethod)

\* C30: a successful bindAuthMethod(account, method, identifier) appends the
\* method at the end of availableAuthMethods, keeping the methods already
\* there in their order, sets the method's identifier column to identifier
\* and its verified flag to true, for every method including EMAIL, and
\* changes neither the identifier nor the verified flag of any other method
\* the account has.
C30_BindSetsMethodOnly ==
    CallsLeft =>
        \A u \in DOMAIN users, m \in AuthMethodType, i \in Ids, vc \in {NULL} \cup CodeValues :
            \A out \in BindOutcomes(u, m, i, vc) :
                LET verified(user, mm) ==
                        CASE mm = EMAIL -> user.emailVerified
                          [] mm \in {PHONE_WHATSAPP, PHONE_TELEGRAM} -> user.phoneVerified
                          [] mm = GITHUB -> user.githubVerified
                          [] mm = GOSUSLUGI -> user.gosuslugiVerified
                          [] mm = VKONTAKTE -> user.vkontakteVerified
                    old == users[u]
                    new == out.users[u]
                IN  out.result.success =>
                        /\ new.availableAuthMethods = Append(old.availableAuthMethods, m)
                        /\ getUserIdentifier(new, m) = i
                        /\ verified(new, m) = TRUE
                        /\ \A k \in 1..Len(old.availableAuthMethods) :
                              LET o == old.availableAuthMethods[k]
                              IN  /\ getUserIdentifier(new, o) = getUserIdentifier(old, o)
                                  /\ verified(new, o) = verified(old, o)
                        /\ \A w \in (DOMAIN users) \ {u} : out.users[w] = users[w]

\* C31: unbindAuthMethod called with a code on an account with two or more
\* methods succeeds only by consuming an unused, unexpired unbinding code for
\* the account's identifier of that method, and then the method is gone from
\* availableAuthMethods and its identifier is cleared; in every other case,
\* the account having no identifier for the method included, the call fails
\* and no account changes.
C31_UnbindNeedsValidCode ==
    CallsLeft =>
        \A u \in DOMAIN users, m \in AuthMethodType, vc \in CodeValues :
            Len(users[u].availableAuthMethods) >= 2 =>
                \A out \in UnbindOutcomes(u, m, vc) :
                    IF out.result.success
                    THEN /\ \E r \in LiveRows(vc, getUserIdentifier(users[u], m),
                                              m, "unbinding") :
                               out.codes = MarkUsed(codes, r)
                         /\ ~Includes(out.users[u].availableAuthMethods, m)
                         /\ getUserIdentifier(out.users[u], m) = NULL
                    ELSE /\ out.users = users
                         /\ out.codes = codes

\* C32: an account is created with primaryAuthMethod the method it was
\* created with (the registering method, GITHUB in the GitHub callback,
\* PHONE_TELEGRAM in the Telegram login), and no bind, unbind, GitHub
\* callback, merge resolution, MFA setup or MFA disable changes the
\* primaryAuthMethod of an account that exists.
C32_PrimaryMethodFixed ==
    CallsLeft =>
        /\ \A m \in AuthMethodType, i \in Ids, d \in DataValues : \A c \in CodeDraws(m) :
              LET out == register(users, codes, mergeRequests, now, m, i, d, c)
              IN  out.result.created =>
                      out.users[out.result.userId].primaryAuthMethod = m
        /\ \A p \in Profiles :
              LET out == handleCallback(users, codes, mergeRequests,
                                        roleAssignments, p, DefaultRoleName, Roles,
                                        FALSE)
              IN  out.result.created =>
                      out.users[out.result.userId].primaryAuthMethod = GITHUB
        /\ \A tu \in TelegramUsers :
              LET out == handleTelegramLogin(users, codes, mergeRequests, tu, TRUE)
              IN  out.result.created =>
                      out.users[out.result.userId].primaryAuthMethod = PHONE_TELEGRAM
        /\ \A after \in
                 {out.users : out \in
                     UNION {BindOutcomes(u, m, i, vc) \cup UnbindOutcomes(u, m, vc) :
                               u \in UserIds, m \in AuthMethodType, i \in Ids,
                               vc \in {NULL} \cup CodeValues}}
                 \cup {handleCallback(users, codes, mergeRequests, roleAssignments,
                                      p, DefaultRoleName, Roles, FALSE).users :
                          p \in Profiles}
                 \cup {mergeAccounts(users, codes, mergeRequests, now, id, r).users :
                          id \in 1..2, r \in Resolutions}
                 \cup {setupMfa(users, codes, mergeRequests, u, ms, rm,
                                generateBackupCodes(BackupCodes)).users :
                          u \in UserIds, ms \in MfaMethods, rm \in RequiredMethods}
                 \cup {disableMfa(users, codes, mergeRequests, u).users :
                          u \in UserIds} :
              \A u \in DOMAIN users :
                  /\ u \in DOMAIN after
                  /\ after[u].primaryAuthMethod = users[u].primaryAuthMethod

\* C32 witness: an unbind went through that removed the account's primary
\* method, and the account still names it as primaryAuthMethod.
C32_Witness ==
    /\ result.op = "unbind"
    /\ result.success
    /\ ~Includes(users[result.userId].availableAuthMethods,
                 users[result.userId].primaryAuthMethod)

\* C33: the GitHub callback looks the account up by GitHub id first and by
\* the profile's primary e-mail second.  When an account has the GitHub id
\* it is returned and nothing changes; otherwise, when the profile has a
\* primary e-mail and an account has it, no account is created and that
\* account receives the GitHub id, githubVerified and GITHUB among its
\* methods; only when both lookups miss is an account created, with
\* availableAuthMethods <<GITHUB>> and primaryAuthMethod GITHUB.
C33_CallbackLookupOrder ==
    CallsLeft =>
        \A p \in Profiles :
            p.ok =>
                LET out == handleCallback(users, codes, mergeRequests,
                                          roleAssignments, p, DefaultRoleName, Roles,
                                          FALSE)
                    w == out.result.userId
                IN  /\ out.result.success
                    /\ IF \E u \in DOMAIN users : users[u].githubId = p.id
                       THEN /\ users[w].githubId = p.id
                            /\ ~out.result.created
                            /\ out.users = users
                       ELSE IF /\ p.primaryEmail # NULL
                               /\ \E u \in DOMAIN users : users[u].email = p.primaryEmail
                       THEN /\ users[w].email = p.primaryEmail
                            /\ ~out.result.created
                            /\ Len(out.users) = Len(users)
                            /\ out.users[w].githubId = p.id
                            /\ out.users[w].githubVerified
                            /\ Includes(out.users[w].availableAuthMethods, GITHUB)
                            /\ \A x \in (DOMAIN users) \ {w} : out.users[x] = users[x]
                       ELSE /\ out.result.created
                            /\ w = Len(users) + 1
                            /\ Len(out.users) = w
                            /\ out.users[w].githubId = p.id
                            /\ out.users[w].availableAuthMethods = <<GITHUB>>
                            /\ out.users[w].primaryAuthMethod = GITHUB
                            /\ \A x \in DOMAIN users : out.users[x] = users[x]

\* C33 witness: the callback returned the account that has the GitHub id
\* while another account has the profile's primary e-mail.
C33_Witness ==
    /\ result.op = "githubCallback"
    /\ result.success
    /\ ~result.created
    /\ users[result.userId].githubId = "i1"
    /\ users[result.userId].email # "i1"
    /\ \E x \in DOMAIN users : users[x].email = "i1"


\* C34: when the role assignment of a newly created account finds no role
\* (super_admin for the first account, the configured default role for a
\* later one), or its count, lookup or save throws, the callback still
\* succeeds: the new account is persisted, no role assignment is added and
\* the result is a success naming the new account.
C34_RoleFailureKeepsAccount ==
    CallsLeft =>
        \A p \in {x \in Profiles : x.ok}, rs \in RoleSets, thrown \in BOOLEAN :
            LET out == handleCallback(users, codes, mergeRequests,
                                      roleAssignments, p, DefaultRoleName, rs,
                                      thrown)
                id == Len(users) + 1
                name == roleToAssign(id, DefaultRoleName)
            IN  (/\ p.ok
                 /\ ~\E u \in DOMAIN users : users[u].githubId = p.id
                 /\ ~(/\ p.primaryEmail # NULL
                      /\ \E u \in DOMAIN users : users[u].email = p.primaryEmail)
                 /\ (thrown \/ name \notin rs))
                => /\ out.result.success
                   /\ out.result.created
                   /\ out.result.userId = id
                   /\ Len(out.users) = id
                   /\ out.users[id].githubId = p.id
                   /\ out.roleAssignments = roleAssignments
                   /\ ~\E ra \in out.roleAssignments : ra.userId = id

\* C34 witness: a callback created an account and the account has no role
\* assignment.
C34_Witness ==
    /\ result.op = "githubCallback"
    /\ result.success
    /\ result.created
    /\ result.userId \in DOMAIN users
    /\ users[result.userId].githubId = "i1"
    /\ ~\E ra \in roleAssignments : ra.userId = result.userId


C36_LoginNeedsProof ==
    (result.op = "login" /\ result.success) => result.withCode


\* C37: GitHub callbacks handled at the same time on a store that starts
\* with no accounts (the role super_admin exists): whenever no callback is
\* in flight and an account exists, exactly one role assignment is for
\* super_admin.
C37_OneSuperAdmin ==
    (/\ \A p \in Callers : calls[p].pc \in {"idle", "done"}
     /\ Len(users) > 0)
        => Cardinality({ra \in roleAssignments : ra.role = "super_admin"}) = 1


\* C38: availableAuthMethods of every account holds no method twice, after
\* any sequence of register, bindAuthMethod, unbindAuthMethod and GitHub
\* callbacks (service and endpoint with bind=true), bindAuthMethod calls
\* for one account handled at the same time included.
C38_NoMethodTwice ==
    \A u \in DOMAIN users :
        \A j, k \in 1..Len(users[u].availableAuthMethods) :
            j # k => users[u].availableAuthMethods[j] # users[u].availableAuthMethods[k]

\* C38 witness: two bindAuthMethod calls for the same account and the same
\* method both loaded the account before either saved, and both have
\* returned success.
C38_Witness ==
    /\ \A p \in Callers :
          /\ calls[p].pc = "done"
          /\ calls[p].result.success
          /\ calls[p].userId = 1
          /\ calls[p].authMethod = GITHUB
          /\ ~Includes(calls[p].user.availableAuthMethods, GITHUB)
    /\ Includes(users[1].availableAuthMethods, GITHUB)


\* C39: in the module manager, after any sequence of registerModule and
\* unregisterModule calls, every name in the role-promotion map is in the
\* module map with the same module object, also after a name was registered
\* again with a module of another kind; and unregisterModule(name) returns
\* true exactly when the name is registered and leaves it in neither map.
C39_PromotionMapFollowsModules ==
    /\ \A n \in DOMAIN rolePromotionModules :
          /\ n \in DOMAIN modules
          /\ rolePromotionModules[n] = modules[n]
    /\ \A n \in ModuleNames :
          LET out == unregisterModule(modules, rolePromotionModules, n)
          IN  /\ out.returned <=> n \in DOMAIN modules
              /\ n \notin DOMAIN out.modules
              /\ n \notin DOMAIN out.rolePromotionModules


\* C40: a user has at most one membership in an organization:
\* addMemberToOrganization for a user who is a member of the organization
\* fails and adds nothing, and after two addMemberToOrganization calls for
\* the same user and organization handled at the same time there is at most
\* one membership of that user in that organization.
C40_OneMembershipPerPair ==
    /\ \A j, k \in 1..Len(memberships) :
          (/\ memberships[j].userId = memberships[k].userId
           /\ memberships[j].organizationId = memberships[k].organizationId)
              => j = k
    /\ \A o \in 1..MaxOrgs, u \in UserIds, by \in UserIds, canInvite \in BOOLEAN :
          existingMembership(memberships, u, o) =>
              LET out == addMemberToOrganization(memberships, orgRoles, o, u,
                                                 "viewer", by, canInvite)
              IN  /\ ~out.result.success
                  /\ out.memberships = memberships
====
